---------------------------- MODULE Spec2Model ----------------------------
(***************************************************************************)
(* A model of ArtClipper-AI's detection core:                              *)
(*   - the batch queue of App.tsx (processQueue / processFile and the      *)
(*     handlers that race with it),                                        *)
(*   - the undo / redo history of App.tsx,                                 *)
(*   - the region arithmetic of utils/imageUtils.ts and                    *)
(*     services/geminiService.ts.                                          *)
(*                                                                         *)
(* React state is modelled as two copies: the state itself (every queued   *)
(* setState already applied, in order) and what the last render showed,    *)
(* which is what closures and filesRef.current see.  A handler that runs   *)
(* inside a click is rendered before anything else runs (React 18 flushes  *)
(* it synchronously); a setState made from a timer or a promise is         *)
(* rendered by the separate step Render.                                   *)
(***************************************************************************)
EXTENDS Integers, Sequences, FiniteSets, TLC

(* ------------------------------ bounds --------------------------------- *)

\* Files of the working set when the batch is started (SpecBatch).
JobCount == 3
\* Run loops that may be alive at once.
MaxRuns == 2
\* Rounds one run loop may dispatch.
MaxRounds == 5
\* Files of the working set when the batch is started (SpecRounds).
RoundJobs == 5
\* Files imported into the workspace over its life (Spec).
MaxFiles == 2
\* Batch buttons pressed over the life of the workspace (Spec).
MaxClicks == 2
\* Positions the concurrency slider is moved to (Spec).
MaxSlider == 2
\* A number of a reply is a whole count of 1 / RawUnit (SpecRegions).
RawUnit == 4
\* The pieces a reply text is made of, at most (SpecParse).
MaxText == 5
\* The boxes of a list handed to mergeOverlappingBoxes (SpecMerge).
MaxBoxes == 3
\* The side in pixels of the square image those boxes lie in: the 0.005
\* of doBoxesIntersect is 2 pixels of it (SpecMerge).
MergeSide == 400

\* The pixels of a buffer whose flood fill is followed pixel by pixel, at most.
MaxCells == 8
\* Recorded edits of the file shown that are followed one by one, after
\* the edits that filled its history (SpecHistory).
MaxEdits == 3
\* Times undo is invoked on it (SpecHistory).
MaxUndos == 3

(* -------------------------- program constants -------------------------- *)

\* Editor.tsx:829-830: the concurrency slider offers 1..5.
MaxConcurrency == 5

Statuses == {"idle", "queued", "processing", "done", "error"}

\* The detection a batch is started for (Spec); a SCAN batch differs in the
\* detector that is called, nothing else.
BatchModes == {"AI_AUTO"}

\* App.tsx:86: the snapshots pushToHistory keeps.
HistoryLimit == 50
\* imageUtils.ts:151
FLAT_THRESHOLD == 5
\* imageUtils.ts:258: the floor of minDimension
MinDimension == 64
\* geminiService.ts:203
MIN_SIZE_PX == 64
\* geminiService.ts:351
MaxCompressedSize == 768

VARIABLES
    files,            \* App.tsx:35   React state `files` (latest value)
    filesRef,         \* App.tsx:69   filesRef.current = the rendered `files`
    queueProcessing,  \* App.tsx:39   React state
    isProcessing,     \* App.tsx:38   React state
    isPaused,         \* App.tsx:50   React state
    rendered,         \* the queueProcessing, isPaused and isProcessing of the
                      \* last render, which closures and the sidebar read
    concurrency,      \* App.tsx:51   React state (set only from clicks)
    isPausedRef,      \* App.tsx:52
    cancelQueueRef,   \* App.tsx:53
    timers,           \* pending setTimeout(processQueue, 100) closures
    runs,             \* the processQueue invocations and where each stands
    clearing,         \* clearAllFiles awaiting clearDB()
    resetTimer,       \* the setTimeout of App.tsx:257: "none", "armed", "due"
    nextId,           \* the id the next imported file gets (App.tsx:188)
    clicks,           \* batch buttons pressed so far
    geo               \* one detection call: its input and what it returned

vars == <<files, filesRef, queueProcessing, isProcessing, isPaused, rendered,
          concurrency, isPausedRef, cancelQueueRef, timers, runs, clearing,
          resetTimer, nextId, clicks, geo>>

\* Everything but the detection call.
appVars == <<files, filesRef, queueProcessing, isProcessing, isPaused, rendered,
             concurrency, isPausedRef, cancelQueueRef, timers, runs, clearing,
             resetTimer, nextId, clicks>>

(* ------------------------------ helpers -------------------------------- *)

Min(a, b) == IF a < b THEN a ELSE b

Max(a, b) == IF a > b THEN a ELSE b

Abs(a) == IF a < 0 THEN -a ELSE a

\* The array f, every element computed once (TLC would otherwise compute
\* an element again each time it is read).
Stored(f) == f @@ <<>>

\* True of every value; reading v makes TLC compute it here, not later
\* inside the computation it is handed to.
Known(v) == v = v

RECURSIVE SumSeq(_)
SumSeq(s) == IF s = <<>> THEN 0 ELSE Head(s) + SumSeq(Tail(s))

Ids(fs) == {fs[i].id : i \in DOMAIN fs}

\* currentFiles.find(f => f.id === id)
Exists(fs, id) == \E i \in DOMAIN fs : fs[i].id = id

FileOf(fs, id) == fs[CHOOSE i \in DOMAIN fs : fs[i].id = id]

\* { ...f, ...updates }
Spread(f, updates) ==
    [k \in DOMAIN f |-> IF k \in DOMAIN updates THEN updates[k] ELSE f[k]]

\* setFiles(prev => prev.map(f => f.id === id ? {...f, ...updates} : f))
updateFileAndDB(fs, id, updates) ==
    [i \in DOMAIN fs |-> IF fs[i].id = id THEN Spread(fs[i], updates) ELSE fs[i]]

\* A filter that also lets failed jobs back in.
IsQueuedOrError(f) == f.status \in {"queued", "error"}

IsQueued(f) == f.status = "queued"

\* currentFiles.filter(f => f.status === 'queued')
queuedFiles(fs) == SelectSeq(fs, IsQueued)

\* A slice that is one job too long.
batchOfWide(fs, conc) ==
    SubSeq(queuedFiles(fs), 1, Min(conc + 1, Len(queuedFiles(fs))))

\* queuedFiles.slice(0, concurrency)
batchOf(fs, conc) == SubSeq(queuedFiles(fs), 1, Min(conc, Len(queuedFiles(fs))))

SeqIds(s) == [i \in DOMAIN s |-> s[i].id]

\* A processQueue invocation: where it stands (pc), the `concurrency` of its
\* closure, the batch it awaits, and two history fields: the rounds it has
\* dispatched and whether it has dispatched one after waiting out a pause.
IdleRun == [pc |-> "idle", conc |-> 0, batch |-> <<>>, rounds |-> <<>>,
            resumed |-> FALSE]

\* Jobs of run r that were dispatched and have not settled.
InFlight(r) == {k \in DOMAIN runs[r].batch : runs[r].batch[k].st = "flying"}

\* A continuation of processQueue is queued as a microtask: it runs before
\* any timer, click, image load or render.
Microtask == \E r \in DOMAIN runs : runs[r].pc \in {"head", "afterPause"}

Active(r) == runs[r].pc \in {"head", "afterPause", "round", "paused"}

\* The render React commits: closures and filesRef.current catch up, and
\* every detection dispatched before it has now been rendered as processing.
Seen(rs) ==
    [r \in DOMAIN rs |->
        [rs[r] EXCEPT !.batch =
            [k \in DOMAIN rs[r].batch |-> [rs[r].batch[k] EXCEPT !.seen = TRUE]]]]

(* ----------------------------- the queue ------------------------------- *)

\* processFile up to its first await (App.tsx:376-384) for every job of the
\* batch: each is marked processing in the state.
MarkProcessing(fs, batch) ==
    LET Mark[n \in 0..Len(batch)] ==
            IF n = 0 THEN fs
            ELSE updateFileAndDB(Mark[n - 1], batch[n].id, [status |-> "processing"])
    IN Mark[Len(batch)]

Flying(batch) ==
    [k \in DOMAIN batch |->
        [file |-> batch[k], st |-> "flying", seen |-> FALSE, doomed |-> FALSE]]

\* App.tsx:440-442: the loop has been left, by the break of line 408 or 422
\* (how = "cancelled") or by the break of line 428 (how = "done").
Finish(r, how) ==
    /\ queueProcessing' = FALSE
    /\ isProcessing' = FALSE
    /\ isPaused' = FALSE
    /\ runs' = [runs EXCEPT ![r].pc = how, ![r].batch = <<>>]
    /\ files' = files

\* App.tsx:425-433: read the snapshot, take the batch, start its jobs.
SelectRound(r) ==
    LET batch == batchOf(filesRef, runs[r].conc) IN
    IF batch = <<>>
    THEN Finish(r, "done")
    ELSE /\ Len(runs[r].rounds) < MaxRounds
         /\ files' = MarkProcessing(files, batch)
         /\ runs' = [runs EXCEPT ![r].pc = "round",
                                 ![r].batch = Flying(batch),
                                 ![r].rounds = Append(@, SeqIds(batch)),
                                 ![r].resumed = @ \/ runs[r].pc = "afterPause"]
         /\ UNCHANGED <<queueProcessing, isProcessing, isPaused>>

\* setTimeout(processQueue, 100) fires: App.tsx:368-372.
ProcessQueueFire ==
    /\ ~Microtask
    /\ timers # <<>>
    /\ LET t == Head(timers) IN
       IF t.queueProcessing
       THEN /\ timers' = Tail(timers)
            /\ UNCHANGED <<files, filesRef, queueProcessing, isProcessing,
                           isPaused, rendered, concurrency, isPausedRef,
                           cancelQueueRef, runs, clearing, resetTimer, nextId, clicks, geo>>
       ELSE /\ \E r \in DOMAIN runs :
                 /\ ~Active(r)
                 /\ \A q \in DOMAIN runs : q < r => Active(q)
                 /\ runs' = [runs EXCEPT ![r] =
                        [pc |-> "head", conc |-> t.concurrency,
                         batch |-> <<>>, rounds |-> <<>>, resumed |-> FALSE]]
            /\ timers' = Tail(timers)
            /\ queueProcessing' = TRUE
            /\ isPausedRef' = FALSE
            /\ cancelQueueRef' = FALSE
            /\ UNCHANGED <<files, filesRef, isProcessing, isPaused, rendered,
                           concurrency, clearing, resetTimer, nextId, clicks, geo>>

\* A loop that treats the pause flag as a stop.
LoopHeadLeavesOnPause(r) ==
    /\ runs[r].pc = "head"
    /\ IF cancelQueueRef
       THEN Finish(r, "cancelled")
       ELSE IF isPausedRef
       THEN Finish(r, "done")
       ELSE SelectRound(r)
    /\ UNCHANGED <<filesRef, rendered, concurrency, isPausedRef,
                   cancelQueueRef, timers, clearing, resetTimer, nextId, clicks, geo>>

\* A loop that never looks at the pause flag.
LoopHeadNoPause(r) ==
    /\ runs[r].pc = "head"
    /\ IF cancelQueueRef
       THEN Finish(r, "cancelled")
       ELSE SelectRound(r)
    /\ UNCHANGED <<filesRef, rendered, concurrency, isPausedRef,
                   cancelQueueRef, timers, clearing, resetTimer, nextId, clicks, geo>>

\* The top of the while loop: App.tsx:404-433.
LoopHead(r) ==
    /\ runs[r].pc = "head"
    /\ IF cancelQueueRef
       THEN Finish(r, "cancelled")
       ELSE IF isPausedRef
       THEN /\ runs' = [runs EXCEPT ![r].pc = "paused", ![r].batch = <<>>]
            /\ UNCHANGED <<files, queueProcessing, isProcessing, isPaused>>
       ELSE SelectRound(r)
    /\ UNCHANGED <<filesRef, rendered, concurrency, isPausedRef,
                   cancelQueueRef, timers, clearing, resetTimer, nextId, clicks, geo>>

\* The setInterval callback of App.tsx:414-419 finds the pause over.
PausePoll(r) ==
    /\ ~Microtask
    /\ runs[r].pc = "paused"
    /\ ~(isPausedRef /\ ~cancelQueueRef)
    /\ runs' = [runs EXCEPT ![r].pc = "afterPause"]
    /\ UNCHANGED <<files, filesRef, queueProcessing, isProcessing, isPaused,
                   rendered, concurrency, isPausedRef, cancelQueueRef, timers,
                   clearing, resetTimer, nextId, clicks, geo>>

\* App.tsx:421-433: the loop goes on after the pause.
AfterPause(r) ==
    /\ runs[r].pc = "afterPause"
    /\ IF cancelQueueRef
       THEN Finish(r, "cancelled")
       ELSE SelectRound(r)
    /\ UNCHANGED <<filesRef, rendered, concurrency, isPausedRef,
                   cancelQueueRef, timers, clearing, resetTimer, nextId, clicks, geo>>

\* processAiDetect / processScanDetect: App.tsx:348-365.
DetectResult(file, outcome) ==
    IF outcome = "done"
    THEN Spread(file, [slices |-> "det", status |-> "done"])
    ELSE Spread(file, [status |-> "error"])

\* A re-check that looks for the file only, not at the cancel flag.
DiscardedIfGone(file) == ~Exists(filesRef, file.id)

\* App.tsx:394: is the result of `file` dropped?
Discarded(file) == cancelQueueRef \/ ~Exists(filesRef, file.id)

\* A commit that gives the failure of one job to every job still processing.
CommitResultRound(fs, file, result) ==
    [i \in DOMAIN fs |->
        IF fs[i].id = file.id
        THEN Spread(fs[i], [slices |-> result.slices, status |-> result.status,
                            mode |-> file.mode])
        ELSE IF result.status = "error" /\ fs[i].status = "processing"
        THEN Spread(fs[i], [status |-> "error"])
        ELSE fs[i]]

\* A commit that puts the file back when the working set has lost it.
CommitUpsert(fs, file, result) ==
    IF Exists(fs, file.id)
    THEN updateFileAndDB(fs, file.id,
            [slices |-> result.slices, status |-> result.status, mode |-> file.mode])
    ELSE Append(fs, Spread(file, [slices |-> result.slices, status |-> result.status]))

\* App.tsx:396-400
CommitResult(fs, file, result) ==
    updateFileAndDB(fs, file.id,
        [slices |-> result.slices, status |-> result.status, mode |-> file.mode])

\* A join that is over as soon as any job returns.
JoinedEarly(r, k) == TRUE

\* App.tsx:433: Promise.all resolves when job k, the last one of the batch
\* of run r still in flight, returns.
Joined(r, k) == InFlight(r) = {k}

\* A detection that may return before React has rendered the job as
\* processing.
SettleBeforeRender(r, k, outcome) ==
    /\ ~Microtask
    /\ runs[r].pc = "round"
    /\ k \in InFlight(r)
    /\ LET file == runs[r].batch[k].file
           result == DetectResult(file, outcome)
           commit == ~Discarded(file)
       IN /\ files' = IF commit THEN CommitResult(files, file, result) ELSE files
          /\ runs' = [runs EXCEPT
                 ![r].batch[k].st = IF commit THEN "returned1" ELSE "returned0",
                 ![r].pc = IF Joined(r, k) THEN "head" ELSE "round"]
    /\ UNCHANGED <<filesRef, queueProcessing, isProcessing, isPaused, rendered,
                   concurrency, isPausedRef, cancelQueueRef, timers, clearing,
                   resetTimer, nextId, clicks, geo>>

\* The detection of job k of run r settles (App.tsx:386-401); processFile
\* returns 0 (result dropped) or 1 (result committed).
Settle(r, k, outcome) ==
    /\ ~Microtask
    /\ runs[r].pc = "round"
    /\ k \in InFlight(r)
    /\ runs[r].batch[k].seen
    /\ LET file == runs[r].batch[k].file
           result == DetectResult(file, outcome)
           commit == ~Discarded(file)
       IN /\ files' = IF commit THEN CommitResult(files, file, result) ELSE files
          /\ runs' = [runs EXCEPT
                 ![r].batch[k].st = IF commit THEN "returned1" ELSE "returned0",
                 ![r].pc = IF Joined(r, k) THEN "head" ELSE "round"]
    /\ UNCHANGED <<filesRef, queueProcessing, isProcessing, isPaused, rendered,
                   concurrency, isPausedRef, cancelQueueRef, timers, clearing,
                   resetTimer, nextId, clicks, geo>>

(* ------------------------------- React --------------------------------- *)

Closures == [queueProcessing |-> queueProcessing, isPaused |-> isPaused,
             isProcessing |-> isProcessing]

Stale ==
    \/ filesRef # files
    \/ rendered # Closures
    \/ runs # Seen(runs)
    \/ resetTimer = "armed"

\* React renders what timers and promises have set, and the effect of
\* App.tsx:70 refreshes filesRef.current.
Render ==
    /\ ~Microtask
    /\ Stale
    /\ filesRef' = files
    /\ rendered' = Closures
    /\ runs' = Seen(runs)
    /\ resetTimer' = IF resetTimer = "armed" THEN "due" ELSE resetTimer
    /\ UNCHANGED <<files, queueProcessing, isProcessing, isPaused, concurrency,
                   isPausedRef, cancelQueueRef, timers, clearing, nextId, clicks, geo>>

(* ------------------------------ handlers ------------------------------- *)

\* App.tsx:449-459, rendered at once.  The button is shown while the
\* rendered queueProcessing is true and more than one file is listed
\* (Editor.tsx:781, 797-803).
handlePauseResume ==
    /\ ~Microtask
    /\ rendered.queueProcessing
    /\ Len(filesRef) > 1
    /\ isPausedRef' = ~rendered.isPaused
    /\ isPaused' = ~rendered.isPaused
    /\ filesRef' = files
    /\ rendered' = [queueProcessing |-> queueProcessing,
                    isPaused |-> ~rendered.isPaused,
                    isProcessing |-> isProcessing]
    /\ runs' = Seen(runs)
    /\ resetTimer' = IF resetTimer = "armed" THEN "due" ELSE resetTimer
    /\ UNCHANGED <<files, queueProcessing, isProcessing, concurrency,
                   cancelQueueRef, timers, clearing, nextId, clicks, geo>>

RemoveId(fs, id) == SelectSeq(fs, LAMBDA f : f.id # id)

\* App.tsx:219-231: the file shown as `id` is deleted; setFiles runs after
\* the await of deleteFileFromDB.
removeFileFromApp(id) ==
    /\ ~Microtask
    /\ id \in Ids(filesRef)
    /\ files' = RemoveId(files, id)
    /\ UNCHANGED <<filesRef, queueProcessing, isProcessing, isPaused, rendered,
                   concurrency, isPausedRef, cancelQueueRef, timers, runs,
                   clearing, resetTimer, nextId, clicks, geo>>

Doom(rs) ==
    [r \in DOMAIN rs |->
        [rs[r] EXCEPT !.batch =
            [k \in DOMAIN rs[r].batch |->
                [rs[r].batch[k] EXCEPT !.doomed = (rs[r].batch[k].st = "flying")]]]]

\* App.tsx:239-250, up to the await of clearDB; rendered at once.
clearAllFiles ==
    /\ ~Microtask
    /\ ~clearing
    /\ resetTimer = "none"
    /\ cancelQueueRef' = TRUE
    /\ isPausedRef' = FALSE
    /\ queueProcessing' = FALSE
    /\ isProcessing' = FALSE
    /\ isPaused' = FALSE
    /\ clearing' = TRUE
    /\ filesRef' = files
    /\ rendered' = [queueProcessing |-> FALSE, isPaused |-> FALSE,
                    isProcessing |-> FALSE]
    /\ runs' = Doom(Seen(runs))
    /\ UNCHANGED <<files, concurrency, timers, resetTimer, nextId, clicks, geo>>

\* App.tsx:251-257: clearDB has resolved.
ClearAllDone ==
    /\ ~Microtask
    /\ clearing
    /\ clearing' = FALSE
    /\ files' = <<>>
    /\ resetTimer' = "armed"
    /\ UNCHANGED <<filesRef, queueProcessing, isProcessing, isPaused, rendered,
                   concurrency, isPausedRef, cancelQueueRef, timers, runs, nextId, clicks, geo>>

\* App.tsx:257: the 100 ms timer resets the cancel flag.
CancelReset ==
    /\ ~Microtask
    /\ resetTimer = "due"
    /\ resetTimer' = "none"
    /\ cancelQueueRef' = FALSE
    /\ UNCHANGED <<files, filesRef, queueProcessing, isProcessing, isPaused,
                   rendered, concurrency, isPausedRef, timers, runs, clearing, nextId, clicks, geo>>

\* The synchronous render that ends a click: what React has pending is
\* rendered with it.
FlushTimer == IF resetTimer = "armed" THEN "due" ELSE resetTimer

\* App.tsx:477-563: handleRunBatch('AI' | 'SCAN') on the files `targets`
\* (the selection, or every file once the confirm dialog is accepted).
\* `files` is the rendered list; processQueue is the closure of this render.
handleRunBatch(mode, targets) ==
    /\ ~Microtask
    /\ Len(filesRef) > 1
    /\ targets # {}
    /\ targets \subseteq Ids(filesRef)
    /\ clicks < MaxClicks
    /\ clicks' = clicks + 1
    /\ files' = [i \in DOMAIN filesRef |->
                    IF filesRef[i].id \in targets
                    THEN Spread(filesRef[i], [status |-> "queued", mode |-> mode])
                    ELSE filesRef[i]]
    /\ isProcessing' = TRUE
    /\ timers' = Append(timers, [queueProcessing |-> rendered.queueProcessing,
                                 concurrency |-> concurrency])
    /\ filesRef' = files'
    /\ rendered' = [Closures EXCEPT !.isProcessing = TRUE]
    /\ runs' = Seen(runs)
    /\ resetTimer' = FlushTimer
    /\ UNCHANGED <<queueProcessing, isPaused, concurrency, isPausedRef,
                   cancelQueueRef, clearing, nextId, geo>>

\* Editor.tsx:532-545, 786-787: a batch button, disabled while the rendered
\* isProcessing is true.
BatchButton(mode, targets) ==
    /\ ~rendered.isProcessing
    /\ handleRunBatch(mode, targets)

\* Editor.tsx:610-616, 634-638 and App.tsx:984-993: the "apply to all"
\* buttons of the sidebar, which are never disabled.
onApplySettingsToAll(mode, targets) ==
    /\ Len(filesRef) > 1
    /\ handleRunBatch(mode, targets)

\* Editor.tsx:827-835 and App.tsx:997: the concurrency slider is moved to v
\* (explored while no batch is pending or running; a run keeps the value
\* its closure captured).
setConcurrency(v) ==
    /\ ~Microtask
    /\ Len(filesRef) > 1
    /\ timers = <<>>
    /\ \A r \in DOMAIN runs : ~Active(r)
    /\ concurrency' = v
    /\ filesRef' = files
    /\ rendered' = Closures
    /\ runs' = Seen(runs)
    /\ resetTimer' = FlushTimer
    /\ UNCHANGED <<files, queueProcessing, isProcessing, isPaused, isPausedRef,
                   cancelQueueRef, timers, clearing, nextId, clicks, geo>>

\* App.tsx:186-206: one image is imported.
addFilesToApp ==
    /\ ~Microtask
    /\ nextId <= MaxFiles
    /\ files' = Append(files, [id |-> nextId, status |-> "idle",
                               slices |-> "grid", mode |-> "GRID"])
    /\ nextId' = nextId + 1
    /\ filesRef' = files'
    /\ rendered' = Closures
    /\ runs' = Seen(runs)
    /\ resetTimer' = FlushTimer
    /\ UNCHANGED <<queueProcessing, isProcessing, isPaused, concurrency,
                   isPausedRef, cancelQueueRef, timers, clearing, clicks, geo>>

\* App.tsx:921 with Editor.tsx:169, 186, 197: a region of the file shown
\* is drawn, moved or deleted on the canvas, which is never disabled.
onSlicesChange(id) ==
    /\ ~Microtask
    /\ id \in Ids(filesRef)
    /\ files' = updateFileAndDB(files, id, [slices |-> "edit"])
    /\ filesRef' = files'
    /\ rendered' = Closures
    /\ runs' = Seen(runs)
    /\ resetTimer' = FlushTimer
    /\ UNCHANGED <<queueProcessing, isProcessing, isPaused, concurrency,
                   isPausedRef, cancelQueueRef, timers, clearing, nextId, clicks, geo>>

\* App.tsx:567-573 with Editor.tsx:501: a mode tab of the file shown is
\* clicked; the GRID tab lays the grid again, the others keep the regions
\* the render shows.
handleModeChange(id, mode) ==
    /\ ~Microtask
    /\ id \in Ids(filesRef)
    /\ files' = updateFileAndDB(files, id,
                    [mode |-> mode,
                     slices |-> IF mode = "GRID" THEN "grid"
                                ELSE FileOf(filesRef, id).slices])
    /\ filesRef' = files'
    /\ rendered' = Closures
    /\ runs' = Seen(runs)
    /\ resetTimer' = FlushTimer
    /\ UNCHANGED <<queueProcessing, isProcessing, isPaused, concurrency,
                   isPausedRef, cancelQueueRef, timers, clearing, nextId, clicks, geo>>

(* ------------------------------ history -------------------------------- *)

\* The undo / redo history of the file shown in the editor.  geo holds the
\* regions of the file in the state (slices), the regions of the last render
\* (shown), which is what activeFile.slices is in the closures of handleUndo
\* and handleRedo, and the two stacks of historyRef.current[id].  A region
\* set is a number; every recorded edit makes a new one.  `last` is the
\* handler that ran last and `before` what the file was when handleUndo was
\* entered, kept until the next handler has run; `first` is the number of
\* edits made before the file is followed.

NoSnapshot == [slices |-> 0, undo |-> <<>>, redo |-> <<>>]

\* App.tsx:83-90 on the stacks `history`.
pushToHistory(history, slices) ==
    [undo |-> Append(IF Len(history.undo) >= HistoryLimit
                     THEN Tail(history.undo) ELSE history.undo, slices),
     redo |-> <<>>]

\* App.tsx:168-184 with recordHistory = true on the active file: the new
\* regions `next` replace the regions of the state, which go to the stack.
RecordedUpdate(g, next) ==
    [g EXCEPT !.slices = next,
              !.undo = pushToHistory([undo |-> g.undo, redo |-> g.redo], g.slices).undo,
              !.redo = pushToHistory([undo |-> g.undo, redo |-> g.redo], g.slices).redo,
              !.edits = @ + 1,
              !.last = "edit",
              !.before = NoSnapshot]

\* App.tsx:921: a region is drawn, moved or deleted on the canvas; the
\* click is rendered at once.
EditorChange ==
    /\ geo.op = "history"
    /\ geo.edits < geo.first + MaxEdits
    /\ geo' = [RecordedUpdate(geo, geo.edits + 1) EXCEPT !.shown = geo.edits + 1]
    /\ UNCHANGED appVars

\* App.tsx:597, 624 and 396-400: a detection of the file shown returns and
\* its regions are committed from the promise; React renders them later.
DetectCommit ==
    /\ geo.op = "history"
    /\ geo.edits < geo.first + MaxEdits
    /\ geo' = RecordedUpdate(geo, geo.edits + 1)
    /\ UNCHANGED appVars

\* React renders the regions a promise has committed.
RenderShown ==
    /\ geo.op = "history"
    /\ geo.shown # geo.slices
    /\ geo' = [geo EXCEPT !.shown = geo.slices]
    /\ UNCHANGED appVars

\* App.tsx:92-106, rendered at once.
handleUndo ==
    /\ geo.op = "history"
    /\ geo.undo # <<>>
    /\ geo.undos < MaxUndos
    /\ geo' = [geo EXCEPT
            !.undo = SubSeq(geo.undo, 1, Len(geo.undo) - 1),
            !.redo = Append(geo.redo, geo.shown),
            !.slices = geo.undo[Len(geo.undo)],
            !.shown = geo.undo[Len(geo.undo)],
            !.undos = @ + 1,
            !.last = "undo",
            !.before = [slices |-> geo.slices, undo |-> geo.undo,
                        redo |-> geo.redo]]
    /\ UNCHANGED appVars

\* App.tsx:108-122, rendered at once.
handleRedo ==
    /\ geo.op = "history"
    /\ geo.redo # <<>>
    /\ geo' = [geo EXCEPT
            !.redo = SubSeq(geo.redo, 1, Len(geo.redo) - 1),
            !.undo = Append(geo.undo, geo.shown),
            !.slices = geo.redo[Len(geo.redo)],
            !.shown = geo.redo[Len(geo.redo)],
            !.last = "redo",
            !.before = NoSnapshot]
    /\ UNCHANGED appVars

(* ------------------------- image buffers ------------------------------- *)

\* A buffer is described by its bands: `cols` and `rows` are the widths of
\* the column bands and the heights of the row bands, and kind[r][c] is the
\* texture of the cell where row band r crosses column band c.  The pixels
\* are computed from the description; every energy is computed from the
\* pixels.
imgWidth(img) == SumSeq(img.cols)

imgHeight(img) == SumSeq(img.rows)

RECURSIVE BandOf(_, _)
BandOf(lens, p) ==
    IF p < Head(lens) THEN 1 ELSE 1 + BandOf(Tail(lens), p - Head(lens))

\* First and last pixel of band b.
BandStart(lens, b) == SumSeq(SubSeq(lens, 1, b - 1))

BandEnd(lens, b) == SumSeq(SubSeq(lens, 1, b)) - 1

\* The grey level (r = g = b) of a pixel of a cell of each texture.
Shades(kind) ==
    CASE kind = "paper"   -> {255}
      [] kind = "ink"     -> {0}
      [] kind = "checker" -> {90, 165}
      [] kind = "stripes" -> {90, 165}
      [] kind = "bars"    -> {90, 165}
      [] kind = "clear"   -> {0}

\* "checker" changes from every pixel to the next in both directions;
\* "stripes" are vertical, one column wide, "bars" horizontal, one row high.
Shade(kind, x, y) ==
    IF kind = "checker" THEN (IF (x + y) % 2 = 0 THEN 90 ELSE 165)
    ELSE IF kind = "stripes" THEN (IF x % 2 = 0 THEN 90 ELSE 165)
    ELSE IF kind = "bars" THEN (IF y % 2 = 0 THEN 90 ELSE 165)
    ELSE CHOOSE v \in Shades(kind) : TRUE

Alpha(kind) == IF kind = "clear" THEN 0 ELSE 255

\* ctx.getImageData: data[y][x] = [v |-> grey level, a |-> alpha].
Buffer(img) ==
    LET cb == Stored([x \in 0..(imgWidth(img) - 1) |-> BandOf(img.cols, x)])
        rb == Stored([y \in 0..(imgHeight(img) - 1) |-> BandOf(img.rows, y)])
    IN Stored([y \in 0..(imgHeight(img) - 1) |->
          Stored([x \in 0..(imgWidth(img) - 1) |->
              [v |-> Shade(img.kind[rb[y]][cb[x]], x, y),
               a |-> Alpha(img.kind[rb[y]][cb[x]])]])])

(* ------------------------ utils/imageUtils.ts -------------------------- *)

\* Regions and boxes hold the numerators of their coordinates: x and width
\* over the buffer's width, y and height over its height.

\* colorDistance(...) > threshold, for grey pixels: sqrt(3 d^2) > threshold.
colorDistance(v, bg, threshold) == 3 * (v - bg) * (v - bg) > threshold * threshold

\* imageUtils.ts:13-20, buffer = 0.005, in exact arithmetic.
doBoxesIntersect(a, b, width, height) ==
    /\ 1000 * a.x < 1000 * (b.x + b.width) + 5 * width
    /\ 1000 * (a.x + a.width) + 5 * width > 1000 * b.x
    /\ 1000 * a.y < 1000 * (b.y + b.height) + 5 * height
    /\ 1000 * (a.y + a.height) + 5 * height > 1000 * b.y

\* The union of two boxes under the id of the second.
mergeTwoBoxesLastId(a, b) ==
    [id |-> b.id, x |-> Min(a.x, b.x), y |-> Min(a.y, b.y),
     width |-> Max(a.x + a.width, b.x + b.width) - Min(a.x, b.x),
     height |-> Max(a.y + a.height, b.y + b.height) - Min(a.y, b.y)]

\* imageUtils.ts:23-36
mergeTwoBoxes(a, b) ==
    LET x == Min(a.x, b.x)
        y == Min(a.y, b.y)
        maxX == Max(a.x + a.width, b.x + b.width)
        maxY == Max(a.y + a.height, b.y + b.height)
    IN [id |-> a.id, x |-> x, y |-> y, width |-> maxX - x, height |-> maxY - y]

\* A turn of the inner loop that merges without setting hasMerged.
ForTurnOnePass(boxes, i, j, hasMerged, width, height) ==
    IF j > Len(boxes) THEN <<boxes, i + 1, i + 2, hasMerged>>
    ELSE IF doBoxesIntersect(boxes[i], boxes[j], width, height)
    THEN <<[k \in 1..(Len(boxes) - 1) |->
               IF k = i THEN mergeTwoBoxes(boxes[i], boxes[j])
               ELSE IF k < j THEN boxes[k] ELSE boxes[k + 1]],
           i, j, hasMerged>>
    ELSE <<boxes, i, j + 1, hasMerged>>

\* imageUtils.ts:46-56: one turn of the for loops at (i, j), i within the
\* list: <<mergedBoxes, i, j, hasMerged>> after it.  When j has run out the
\* outer loop moves on; a merge leaves j where it is (j--, then j++).
ForTurn(boxes, i, j, hasMerged, width, height) ==
    IF j > Len(boxes) THEN <<boxes, i + 1, i + 2, hasMerged>>
    ELSE IF doBoxesIntersect(boxes[i], boxes[j], width, height)
    THEN <<[k \in 1..(Len(boxes) - 1) |->
               IF k = i THEN mergeTwoBoxes(boxes[i], boxes[j])
               ELSE IF k < j THEN boxes[k] ELSE boxes[k + 1]],
           i, j, TRUE>>
    ELSE <<boxes, i, j + 1, hasMerged>>

\* One run of the two for loops of imageUtils.ts:45-57, from (i, j) on:
\* <<mergedBoxes, hasMerged>>.
RECURSIVE MergePass(_, _, _, _, _, _)
MergePass(boxes, i, j, hasMerged, width, height) ==
    IF i > Len(boxes) THEN <<boxes, hasMerged>>
    ELSE LET t == ForTurn(boxes, i, j, hasMerged, width, height)
         IN MergePass(t[1], t[2], t[3], t[4], width, height)

\* imageUtils.ts:39-60
RECURSIVE mergeOverlappingBoxes(_, _, _)
mergeOverlappingBoxes(boxes, width, height) ==
    LET pass == MergePass(boxes, 1, 2, FALSE, width, height)
    IN IF pass[2] THEN mergeOverlappingBoxes(pass[1], width, height) ELSE pass[1]

\* A turn that counts a pair of fully transparent pixels as a difference of
\* zero.
PairTermCountedAsZero(p1, p2) ==
    IF p1.a < 10 /\ p2.a < 10 THEN <<0, 1>> ELSE <<3 * Abs(p1.v - p2.v), 1>>

\* One turn of the loops of getRowEnergy and getColEnergy:
\* <<what it adds to totalDiff, what it adds to count>>.
PairTerm(p1, p2) ==
    IF p1.a < 10 /\ p2.a < 10 THEN <<0, 0>> ELSE <<3 * Abs(p1.v - p2.v), 1>>

\* <<totalDiff, count>> of the pairs (x, x+1), lo <= x <= hi, of row y.
RECURSIVE RowSum(_, _, _, _)
RowSum(data, y, lo, hi) ==
    IF lo > hi THEN <<0, 0>>
    ELSE IF lo = hi THEN PairTerm(data[y][lo], data[y][lo + 1])
    ELSE LET mid == (lo + hi) \div 2
             l == RowSum(data, y, lo, mid)
             r == RowSum(data, y, mid + 1, hi)
         IN <<l[1] + r[1], l[2] + r[2]>>

\* <<totalDiff, count>> of the pairs (y, y+1), lo <= y <= hi, of column x.
RECURSIVE ColSum(_, _, _, _)
ColSum(data, x, lo, hi) ==
    IF lo > hi THEN <<0, 0>>
    ELSE IF lo = hi THEN PairTerm(data[lo][x], data[lo + 1][x])
    ELSE LET mid == (lo + hi) \div 2
             l == ColSum(data, x, lo, mid)
             r == ColSum(data, x, mid + 1, hi)
         IN <<l[1] + r[1], l[2] + r[2]>>

\* imageUtils.ts:65-85.  An energy is the fraction <<totalDiff, count>>;
\* zero is <<0, 1>>.
getRowEnergy(data, y, minX, maxX) ==
    LET s == RowSum(data, y, minX, maxX - 1) IN IF s[2] > 0 THEN s ELSE <<0, 1>>

\* imageUtils.ts:88-107
getColEnergy(data, x, minY, maxY) ==
    LET s == ColSum(data, x, minY, maxY - 1) IN IF s[2] > 0 THEN s ELSE <<0, 1>>

\* e > f, for energies
Greater(e, f) == e[1] * f[2] > f[1] * e[2]

\* The inner loop of dilateProfile, imageUtils.ts:120-122, over j..end
\* from left to right, as the loop over its first half followed by the
\* loop over its second half.
RECURSIVE WindowMax(_, _, _, _)
WindowMax(profile, j, end, maxVal) ==
    IF j > end THEN maxVal
    ELSE IF j = end
    THEN (IF Greater(profile[j], maxVal) THEN profile[j] ELSE maxVal)
    ELSE LET mid == (j + end) \div 2
             left == WindowMax(profile, j, mid, maxVal)
         IN IF Known(left) THEN WindowMax(profile, mid + 1, end, left) ELSE left

\* imageUtils.ts:110-126; profile[i] here is profile[i - 1] there.
dilateProfile(profile, radius) ==
    IF radius <= 0 THEN profile
    ELSE Stored([i \in 1..Len(profile) |->
            WindowMax(profile, Max(1, i - radius),
                      Min(Len(profile), i + radius), <<0, 1>>)])

\* energy < FLAT_THRESHOLD
Flat(e) == e[1] < FLAT_THRESHOLD * e[2]

\* floor(max(0, 40 - threshold * 0.4)), for an integer threshold
dilationRadius(threshold) == Max(0, 40 - ((2 * threshold + 4) \div 5))

\* max(4, floor(16 - threshold * 0.15)), for an integer threshold
minGap(threshold) == Max(4, 16 - ((3 * threshold + 19) \div 20))

\* One turn of the loop of imageUtils.ts:171-193 (rows) and 205-223
\* (columns), at position p, on st = <<gapStart, cut>>: cut is <<>>, or the
\* <<gapStart, p>> the loop returns with.  lo..hi is minY..maxY (minX..maxX).
CutStep(profile, lo, hi, p, st, gap) ==
    IF Flat(profile[p - lo + 1])
    THEN <<IF st[1] = -1 THEN p ELSE st[1], <<>>>>
    ELSE IF st[1] # -1 /\ p - st[1] >= gap /\ st[1] - lo >= 30 /\ hi - p >= 30
    THEN <<st[1], <<st[1], p>>>>
    ELSE <<-1, <<>>>>

\* That loop over from..to, left to right, as the loop over its first half
\* followed by the loop over its second half; it stops at the first cut.
RECURSIVE FindCut(_, _, _, _, _, _, _)
FindCut(profile, lo, hi, from, to, st, gap) ==
    IF st[2] # <<>> \/ from > to THEN st
    ELSE IF from = to THEN CutStep(profile, lo, hi, from, st, gap)
    ELSE LET mid == (from + to) \div 2
         IN FindCut(profile, lo, hi, mid + 1, to,
                    FindCut(profile, lo, hi, from, mid, st, gap), gap)

\* imageUtils.ts:140-144 and 226-230: the region a box is emitted as.
BoxRegion(box) ==
    [x |-> box.minX, y |-> box.minY,
     width |-> box.maxX - box.minX, height |-> box.maxY - box.minY]

\* One level of a splitBox that searches the columns before the rows.
SplitLevelColumnsFirst(box, data, threshold) ==
    LET minX == box.minX
        minY == box.minY
        maxX == box.maxX
        maxY == box.maxY
    IN IF maxX - minX < 80 \/ maxY - minY < 80
       THEN [axis |-> "leaf", from |-> 0, to |-> 0]
       ELSE
       LET rawColProfiles == Stored([i \in 1..(maxX - minX + 1) |->
                                 getColEnergy(data, minX + i - 1, minY, maxY)])
           xProfiles == IF Known(rawColProfiles)
                        THEN dilateProfile(rawColProfiles, dilationRadius(threshold))
                        ELSE rawColProfiles
           xCut == IF Known(xProfiles)
                   THEN FindCut(xProfiles, minX, maxX, minX, maxX, <<-1, <<>>>>,
                                minGap(threshold))[2]
                   ELSE <<>>
       IN IF xCut # <<>>
          THEN [axis |-> "col", from |-> xCut[1], to |-> xCut[2]]
          ELSE
          LET rawProfiles == Stored([i \in 1..(maxY - minY + 1) |->
                                 getRowEnergy(data, minY + i - 1, minX, maxX)])
              yProfiles == IF Known(rawProfiles)
                           THEN dilateProfile(rawProfiles, dilationRadius(threshold))
                           ELSE rawProfiles
              yCut == IF Known(yProfiles)
                      THEN FindCut(yProfiles, minY, maxY, minY, maxY, <<-1, <<>>>>,
                                   minGap(threshold))[2]
                      ELSE <<>>
          IN IF yCut # <<>>
             THEN [axis |-> "row", from |-> yCut[1], to |-> yCut[2]]
             ELSE [axis |-> "none", from |-> 0, to |-> 0]

\* imageUtils.ts:140-223, one level of splitBox: "leaf" for a box under
\* 80 px; "row" with the gutter from..to-1 that the row profile gives;
\* "col" with the gutter of the column profile, searched when the rows
\* gave none; "none".
SplitLevel(box, data, threshold) ==
    LET minX == box.minX
        minY == box.minY
        maxX == box.maxX
        maxY == box.maxY
    IN IF maxX - minX < 80 \/ maxY - minY < 80
       THEN [axis |-> "leaf", from |-> 0, to |-> 0]
       ELSE
       LET rawProfiles == Stored([i \in 1..(maxY - minY + 1) |->
                              getRowEnergy(data, minY + i - 1, minX, maxX)])
           yProfiles == IF Known(rawProfiles)
                        THEN dilateProfile(rawProfiles, dilationRadius(threshold))
                        ELSE rawProfiles
           yCut == IF Known(yProfiles)
                   THEN FindCut(yProfiles, minY, maxY, minY, maxY, <<-1, <<>>>>,
                                minGap(threshold))[2]
                   ELSE <<>>
       IN IF yCut # <<>>
          THEN [axis |-> "row", from |-> yCut[1], to |-> yCut[2]]
          ELSE
          LET rawColProfiles == Stored([i \in 1..(maxX - minX + 1) |->
                                    getColEnergy(data, minX + i - 1, minY, maxY)])
              xProfiles == IF Known(rawColProfiles)
                           THEN dilateProfile(rawColProfiles, dilationRadius(threshold))
                           ELSE rawColProfiles
              xCut == IF Known(xProfiles)
                      THEN FindCut(xProfiles, minX, maxX, minX, maxX, <<-1, <<>>>>,
                                   minGap(threshold))[2]
                      ELSE <<>>
          IN IF xCut # <<>>
             THEN [axis |-> "col", from |-> xCut[1], to |-> xCut[2]]
             ELSE [axis |-> "none", from |-> 0, to |-> 0]

\* The second box is the box itself.
SubBoxesWholeAgain(box, level) ==
    IF level.axis = "row"
    THEN <<[box EXCEPT !.maxY = level.from - 1], box>>
    ELSE <<[box EXCEPT !.maxX = level.from - 1], box>>

\* The first box runs up to the end of the gutter.
SubBoxesToGutterEnd(box, level) ==
    IF level.axis = "row"
    THEN <<[box EXCEPT !.maxY = level.to - 1], [box EXCEPT !.minY = level.to]>>
    ELSE <<[box EXCEPT !.maxX = level.to - 1], [box EXCEPT !.minX = level.to]>>

\* imageUtils.ts:185-186 and 216-217: the two boxes a level recurses on.
SubBoxes(box, level) ==
    IF level.axis = "row"
    THEN <<[box EXCEPT !.maxY = level.from - 1], [box EXCEPT !.minY = level.to]>>
    ELSE <<[box EXCEPT !.maxX = level.from - 1], [box EXCEPT !.minX = level.to]>>

\* imageUtils.ts:129-231
RECURSIVE splitBox(_, _, _)
splitBox(box, data, threshold) ==
    LET level == SplitLevel(box, data, threshold)
    IN IF level.axis \in {"row", "col"}
       THEN splitBox(SubBoxes(box, level)[1], data, threshold)
            \o splitBox(SubBoxes(box, level)[2], data, threshold)
       ELSE <<BoxRegion(box)>>

\* The cells of the buffer, in the order the scan of imageUtils.ts:261-262
\* meets their first pixel.
Cells(img) ==
    [k \in 1..(Len(img.rows) * Len(img.cols)) |->
        <<((k - 1) \div Len(img.cols)) + 1, ((k - 1) % Len(img.cols)) + 1>>]

\* imageUtils.ts:268-273: do the pixels of cell rc start or extend a
\* component?  (Every pixel of a cell gives the same answer for the
\* buffers of SheetInputs.)
Foreground(img, bg, threshold, rc) ==
    /\ Alpha(img.kind[rc[1]][rc[2]]) >= 10
    /\ \A v \in Shades(img.kind[rc[1]][rc[2]]) : colorDistance(v, bg, threshold)

Adjacent(a, b) == Abs(a[1] - b[1]) + Abs(a[2] - b[2]) = 1

\* The flood fill of imageUtils.ts:275-306, cell by cell: the pixels of a
\* cell are 4-connected, and two cells are joined where they share a side.
RECURSIVE FloodFill(_, _, _, _)
FloodFill(img, bg, threshold, seen) ==
    LET more == {rc \in {Cells(img)[k] : k \in DOMAIN Cells(img)} :
                    /\ rc \notin seen
                    /\ Foreground(img, bg, threshold, rc)
                    /\ \E s \in seen : Adjacent(rc, s)}
    IN IF more = {} THEN seen ELSE FloodFill(img, bg, threshold, seen \cup more)

SetMin(S) == CHOOSE m \in S : \A n \in S : m <= n

SetMax(S) == CHOOSE m \in S : \A n \in S : m >= n

\* imageUtils.ts:274-317 for the component that holds `cells`: the box that
\* is pushed, or nothing when the component is too small.
ComponentBox(img, cells) ==
    LET minX == SetMin({BandStart(img.cols, rc[2]) : rc \in cells})
        maxX == SetMax({BandEnd(img.cols, rc[2]) : rc \in cells})
        minY == SetMin({BandStart(img.rows, rc[1]) : rc \in cells})
        maxY == SetMax({BandEnd(img.rows, rc[1]) : rc \in cells})
        w == maxX - minX + 1
        h == maxY - minY + 1
        small == Min(imgWidth(img), imgHeight(img))
    IN IF w >= MinDimension /\ 20 * w >= small /\ h >= MinDimension /\ 20 * h >= small
       THEN <<[x |-> minX, y |-> minY, width |-> w, height |-> h]>>
       ELSE <<>>

\* The two for loops of imageUtils.ts:261-320 from cell k on: `boxes`.
RECURSIVE ScanCells(_, _, _, _, _)
ScanCells(img, bg, threshold, k, visited) ==
    IF k > Len(Cells(img)) THEN <<>>
    ELSE IF Cells(img)[k] \notin visited
            /\ Foreground(img, bg, threshold, Cells(img)[k])
    THEN LET cells == FloodFill(img, bg, threshold, {Cells(img)[k]})
         IN ComponentBox(img, cells)
            \o ScanCells(img, bg, threshold, k + 1, visited \cup cells)
    ELSE ScanCells(img, bg, threshold, k + 1, visited)

\* imageUtils.ts:312: box k (from 0) is pushed with the id `scan-k`.
Numbered(boxes) ==
    [k \in DOMAIN boxes |->
        [id |-> k - 1, x |-> boxes[k].x, y |-> boxes[k].y,
         width |-> boxes[k].width, height |-> boxes[k].height]]

\* Math.floor(q * width) where q is the double nearest to n / width: n, or
\* n - 1 when the product falls just short of n (29 / 100 * 100 is
\* 28.999999999999996).  `loss` says which.
FloorOf(n, loss) == IF loss /\ n >= 1 THEN n - 1 ELSE n

\* imageUtils.ts:327-335
RawBox(box, width, height, loss) ==
    [minX |-> FloorOf(box.x, loss),
     minY |-> FloorOf(box.y, loss),
     maxX |-> Min(width - 1, FloorOf(box.x + box.width, loss)),
     maxY |-> Min(height - 1, FloorOf(box.y + box.height, loss))]

\* The loop of imageUtils.ts:326-339 from box k on: `finalBoxes`.
RECURSIVE SplitAll(_, _, _, _, _, _, _)
SplitAll(mergedBoxes, k, data, width, height, threshold, loss) ==
    IF k > Len(mergedBoxes) THEN <<>>
    ELSE splitBox(RawBox(mergedBoxes[k], width, height, loss), data, threshold)
         \o SplitAll(mergedBoxes, k + 1, data, width, height, threshold, loss)

\* imageUtils.ts:233-345
scanForSprites(img, threshold, loss) ==
    LET data == Buffer(img)
        width == imgWidth(img)
        height == imgHeight(img)
        bg == data[0][0].v
        effectiveThreshold == Max(10, threshold)
        boxes == Numbered(ScanCells(img, bg, effectiveThreshold, 1, {}))
        mergedBoxes == mergeOverlappingBoxes(boxes, width, height)
    IN SplitAll(mergedBoxes, 1, data, width, height, effectiveThreshold, loss)

(* --------------------- services/geminiService.ts ----------------------- *)

\* A number of the parsed reply is n / RawUnit, or it is not a number
\* (NaN; a missing value becomes NaN in the arithmetic that follows).
Num(n) == [nan |-> FALSE, n |-> n]

NaN == [nan |-> TRUE, n |-> 0]

\* a > b
Gt(a, b) == ~a.nan /\ ~b.nan /\ a.n > b.n

MathMin(a, b) == IF a.nan \/ b.nan THEN NaN ELSE Num(Min(a.n, b.n))

MathMax(a, b) == IF a.nan \/ b.nan THEN NaN ELSE Num(Max(a.n, b.n))

Minus(a, b) == IF a.nan \/ b.nan THEN NaN ELSE Num(a.n - b.n)

\* geminiService.ts:329-334: maxVal after the values vs, starting from m.
RECURSIVE MaxOver(_, _)
MaxOver(vs, m) ==
    IF vs = <<>> THEN m
    ELSE MaxOver(Tail(vs), IF Gt(Head(vs), m) THEN Head(vs) ELSE m)

RECURSIVE MaxVal(_, _)
MaxVal(boxes, m) ==
    IF boxes = <<>> THEN m
    ELSE MaxVal(Tail(boxes),
                IF Head(boxes).form = "array" THEN MaxOver(Head(boxes).v, m) ELSE m)

\* Math.round(a / b), a and b positive
RoundDiv(a, b) == (2 * a + b) \div (2 * b)

\* geminiService.ts:337-364
ScaleFactor(maxVal, imgW, imgH) ==
    IF maxVal.n > RawUnit /\ 2 * maxVal.n <= 3 * RawUnit THEN 1
    ELSE IF maxVal.n > RawUnit /\ maxVal.n <= 1000 * RawUnit THEN 1000
    ELSE IF maxVal.n > 1000 * RawUnit
    THEN LET compressedW == IF imgW > MaxCompressedSize \/ imgH > MaxCompressedSize
                            THEN (IF imgW > imgH THEN MaxCompressedSize
                                  ELSE RoundDiv(imgW * MaxCompressedSize, imgH))
                            ELSE imgW
             compressedH == IF imgW > MaxCompressedSize \/ imgH > MaxCompressedSize
                            THEN (IF imgW > imgH
                                  THEN RoundDiv(imgH * MaxCompressedSize, imgW)
                                  ELSE MaxCompressedSize)
                            ELSE imgH
         IN Max(compressedW, compressedH)
    ELSE 1

\* The values of an object box are its ymin, xmin, ymax, xmax, in this
\* order; one that is missing is undefined.
Field(box, i) == IF i <= Len(box.v) THEN box.v[i] ELSE NaN

\* Every box is read as [ymin, xmin, ymax, xmax] and nothing else.
BoxExtentAsRead(box) ==
    IF box.form = "array" /\ Len(box.v) >= 4
    THEN <<box.v[2], box.v[1], Minus(box.v[4], box.v[2]),
           Minus(box.v[3], box.v[1])>>
    ELSE IF box.form = "object"
    THEN <<Field(box, 2), Field(box, 1), Minus(Field(box, 4), Field(box, 2)),
           Minus(Field(box, 3), Field(box, 1))>>
    ELSE <<>>

\* geminiService.ts:370-419: <<x, y, w, h>> of a box, or <<>> for null.
\* Dividing every value by scaleFactor is taking them over one =
\* RawUnit * scaleFactor, so the numerators stay.
BoxExtent(box) ==
    IF box.form = "array"
    THEN IF Len(box.v) >= 4
         THEN LET v0 == box.v[1]
                  v1 == box.v[2]
                  v2 == box.v[3]
                  v3 == box.v[4]
                  swap == Gt(v0, v2) \/ Gt(v1, v3)
                  xmin == IF swap THEN MathMin(v0, v2) ELSE v1
                  ymin == IF swap THEN MathMin(v1, v3) ELSE v0
                  xmax == IF swap THEN MathMax(v0, v2) ELSE v3
                  ymax == IF swap THEN MathMax(v1, v3) ELSE v2
              IN <<xmin, ymin, Minus(xmax, xmin), Minus(ymax, ymin)>>
         ELSE <<>>
    ELSE IF box.form = "object"
    THEN <<Field(box, 2), Field(box, 1), Minus(Field(box, 4), Field(box, 2)),
           Minus(Field(box, 3), Field(box, 1))>>
    ELSE <<>>

\* geminiService.ts:424-425: Math.max(0, Math.min(1, x))
ClampStart(x, one) == MathMax(Num(0), MathMin(Num(one), x))

\* A size clamped to the whole image, whatever the start.
ClampSizeWhole(x, w, one) == MathMax(Num(0), MathMin(Num(one), w))

\* geminiService.ts:426-427: Math.max(0, Math.min(1 - x, w))
ClampSize(x, w, one) == MathMax(Num(0), MathMin(Minus(Num(one), x), w))

\* geminiService.ts:421-432: the box the map callback returns.
Clamped(e, one) ==
    LET x == ClampStart(e[1], one)
        y == ClampStart(e[2], one)
    IN [x |-> x, y |-> y,
        width |-> ClampSize(x, e[3], one), height |-> ClampSize(y, e[4], one)]

\* A box of exactly the floor passes.
BigEnoughOrFloor(b, one, imgW, imgH) ==
    /\ ~b.width.nan
    /\ ~b.height.nan
    /\ b.width.n * imgW >= MIN_SIZE_PX * one
    /\ b.height.n * imgH >= MIN_SIZE_PX * one

\* geminiService.ts:434-439
BigEnough(b, one, imgW, imgH) ==
    /\ ~b.width.nan
    /\ ~b.height.nan
    /\ b.width.n * imgW > MIN_SIZE_PX * one
    /\ b.height.n * imgH > MIN_SIZE_PX * one

\* geminiService.ts:368-439 from box k on.
RECURSIVE MapFilter(_, _, _, _, _)
MapFilter(boxes, k, one, imgW, imgH) ==
    IF k > Len(boxes) THEN <<>>
    ELSE LET e == BoxExtent(boxes[k])
             b == Clamped(e, one)
         IN (IF e # <<>> /\ BigEnough(b, one, imgW, imgH)
             THEN <<[x |-> b.x.n, y |-> b.y.n,
                     width |-> b.width.n, height |-> b.height.n]>>
             ELSE <<>>)
            \o MapFilter(boxes, k + 1, one, imgW, imgH)

\* geminiService.ts:319-439: the regions made of the parsed `boxes` for an
\* image of imgW x imgH, as numerators over `one`; `extents` are the x, y,
\* w, h of each box before the clamp (line 421), `mapped` what the map
\* callback returns for each box (<<>> for null).
detectSegments(boxes, imgW, imgH) ==
    LET scaleFactor == ScaleFactor(MaxVal(boxes, Num(0)), imgW, imgH)
        one == RawUnit * scaleFactor
    IN [one |-> one, regions |-> MapFilter(boxes, 1, one, imgW, imgH),
        extents |-> [k \in DOMAIN boxes |-> BoxExtent(boxes[k])],
        mapped |-> [k \in DOMAIN boxes |->
                       IF BoxExtent(boxes[k]) = <<>> THEN <<>>
                       ELSE <<Clamped(BoxExtent(boxes[k]), one)>>]]

\* The reply text is a sequence of pieces: "open" is {"boxes":[ and "close"
\* is ]} ; "box" is [0.25,0.25,0.75,0.75] and "kilo" is [250,250,750,750];
\* "comma" is , ; "fence" is ``` ; "prose" is words without brackets, braces
\* or backticks; "note" is {"note":1}.
Pieces == {"open", "close", "box", "kilo", "comma", "fence", "prose", "note"}

\* The box a piece is when it stands in a boxes list.
BoxOf(piece) ==
    CASE piece = "box"  -> [form |-> "array",
                            v |-> <<Num(RawUnit \div 4), Num(RawUnit \div 4),
                                    Num((3 * RawUnit) \div 4),
                                    Num((3 * RawUnit) \div 4)>>]
      [] piece = "kilo" -> [form |-> "array",
                            v |-> <<Num(250 * RawUnit), Num(250 * RawUnit),
                                    Num(750 * RawUnit), Num(750 * RawUnit)>>]
      [] OTHER          -> [form |-> "object", v |-> <<>>]

\* JSON.parse throws a SyntaxError.
SyntaxError == [ok |-> FALSE, next |-> 0, has |-> FALSE, boxes |-> <<>>,
                piece |-> "prose"]

\* JSON.parse from piece i on.  `stack` holds the elements read so far of
\* every boxes array that is still open, the innermost last.  `value` is
\* <<>> when a value has to start at piece i, and <<v>> when the value v
\* ended just before it: `has` tells whether v is an object with a `boxes`
\* array and `boxes` is that array.  The result has the outermost value
\* and, as `next`, the piece after it.
RECURSIVE ParseValue(_, _, _, _)
ParseValue(text, i, stack, value) ==
    IF value # <<>>
    THEN IF stack = <<>>
         THEN [ok |-> TRUE, next |-> i, has |-> value[1].has,
               boxes |-> value[1].boxes, piece |-> value[1].piece]
         ELSE LET boxes == Append(stack[Len(stack)], BoxOf(value[1].piece))
                  outer == SubSeq(stack, 1, Len(stack) - 1)
              IN IF i > Len(text) THEN SyntaxError
                 ELSE IF text[i] = "comma"
                 THEN ParseValue(text, i + 1, Append(outer, boxes), <<>>)
                 ELSE IF text[i] = "close"
                 THEN ParseValue(text, i + 1, outer,
                                 <<[has |-> TRUE, boxes |-> boxes, piece |-> "open"]>>)
                 ELSE SyntaxError
    ELSE IF i > Len(text) THEN SyntaxError
    ELSE IF text[i] \in {"box", "kilo", "note"}
    THEN ParseValue(text, i + 1, stack,
                    <<[has |-> FALSE, boxes |-> <<>>, piece |-> text[i]]>>)
    ELSE IF text[i] = "open"
    THEN (IF i + 1 <= Len(text) /\ text[i + 1] = "close"
          THEN ParseValue(text, i + 2, stack,
                          <<[has |-> TRUE, boxes |-> <<>>, piece |-> "open"]>>)
          ELSE ParseValue(text, i + 1, Append(stack, <<>>), <<>>))
    ELSE SyntaxError

\* JSON.parse(text)
JSONParse(text) ==
    LET r == ParseValue(text, 1, <<>>, <<>>)
    IN IF r.ok /\ r.next = Len(text) + 1 THEN r ELSE SyntaxError

Places(text, S) == {i \in DOMAIN text : text[i] \in S}

\* geminiService.ts:284: what the group of /```(?:json)?\s*([\s\S]*?)```/
\* captures, the pieces between the first fence and the one after it.
FencedBlock(text) ==
    LET fences == Places(text, {"fence"})
        first == SetMin(fences)
        second == SetMin(fences \ {first})
    IN IF Cardinality(fences) < 2 THEN [match |-> FALSE, text |-> <<>>]
       ELSE [match |-> TRUE, text |-> SubSeq(text, first + 1, second - 1)]

\* geminiService.ts:291: what /\{[\s\S]*\}/ matches, from the first { to
\* the last } of the text.
BareObject(text) ==
    LET from == Places(text, {"open", "note"})
        to == Places(text, {"close", "note"})
    IN IF from = {} \/ to = {} \/ SetMax(to) < SetMin(from)
       THEN [match |-> FALSE, text |-> <<>>]
       ELSE [match |-> TRUE, text |-> SubSeq(text, SetMin(from), SetMax(to))]

\* geminiService.ts:304
InUnit(n) == ~n.nan /\ n.n >= 0 /\ n.n <= RawUnit

\* geminiService.ts:299-307: boxArrays, from piece i on.
RECURSIVE BoxArrays(_, _)
BoxArrays(text, i) ==
    IF i > Len(text) THEN <<>>
    ELSE (IF /\ text[i] \in {"box", "kilo"}
             /\ \A k \in 1..4 : InUnit(BoxOf(text[i]).v[k])
          THEN <<BoxOf(text[i])>>
          ELSE <<>>) \o BoxArrays(text, i + 1)

\* The `result` a parsed value is.
ResultOf(r, by) == [has |-> r.has, boxes |-> r.boxes, by |-> by]

\* geminiService.ts:277-317: the `result` after the strategies, `by` the
\* strategy that assigned it ("none": never assigned), or the Error thrown.
ParseChain(text) ==
    LET initial == [has |-> TRUE, boxes |-> <<>>, by |-> "none"]
        direct == JSONParse(text)
        jsonMatch == FencedBlock(text)
        fenced == JSONParse(jsonMatch.text)
        result2 == IF jsonMatch.match /\ fenced.ok
                   THEN ResultOf(fenced, "fenced") ELSE initial
        objectMatch == BareObject(text)
        object == JSONParse(objectMatch.text)
        result3 == IF ~result2.has /\ objectMatch.match /\ object.ok
                   THEN ResultOf(object, "object") ELSE result2
        boxArrays == BoxArrays(text, 1)
        result4 == IF ~result3.has /\ Len(boxArrays) > 0
                   THEN [has |-> TRUE, boxes |-> boxArrays, by |-> "regex"]
                   ELSE result3
    IN IF direct.ok THEN [error |-> "none", result |-> ResultOf(direct, "direct")]
       ELSE IF ~result4.has \/ Len(result4.boxes) = 0
       THEN [error |-> "unparsable", result |-> result4]
       ELSE [error |-> "none", result |-> result4]

\* geminiService.ts:273-439: what detectSegments does with the text of the
\* reply: the Error it throws, or the regions it returns for what the
\* strategies `parsed`.
detectSegmentsOfText(text, imgW, imgH) ==
    CHOOSE outcome \in
        {IF parsed.error # "none" \/ ~parsed.result.has
         THEN [error |-> parsed.error, result |-> parsed.result,
               one |-> RawUnit, regions |-> <<>>]
         ELSE [error |-> "none", result |-> parsed.result,
               one |-> detectSegments(parsed.result.boxes, imgW, imgH).one,
               regions |-> detectSegments(parsed.result.boxes, imgW, imgH).regions] :
            parsed \in {IF text = <<>>
                        THEN [error |-> "empty",
                              result |-> [has |-> FALSE, boxes |-> <<>>,
                                          by |-> "none"]]
                        ELSE ParseChain(text)}} : TRUE

(* -------------------------- detection calls ---------------------------- *)

NoCall == [op |-> "none", done |-> FALSE]

\* A sprite sheet: a paper margin (band 1 of each direction), textured
\* sprites where the row bands R cross the column bands C, `link` on the
\* rest of those bands, paper elsewhere.
SpriteSheet(cl, rl, R, C, link) ==
    [cols |-> cl, rows |-> rl,
     kind |-> [r \in 1..Len(rl) |-> [c \in 1..Len(cl) |->
                 IF r \in R /\ c \in C THEN "checker"
                 ELSE IF r = 1 \/ c = 1 THEN "paper"
                 ELSE IF r \in R \/ c \in C THEN link
                 ELSE "paper"]]]

\* margin, sprite, gutter, sprite up to the edge
Layouts == {<<3, 40, 10, 50>>, <<2, 70, 6, 70>>}

Occupied == {{2}, {4}, {2, 4}, {2, 3, 4}}

ScanThresholds == {1, 100}

SheetInputs ==
    {[op |-> "scan", done |-> FALSE, loss |-> loss, threshold |-> t,
      img |-> SpriteSheet(cl, rl, R, C, link)] :
        cl \in Layouts, rl \in Layouts, R \in Occupied, C \in Occupied,
        link \in {"paper", "ink", "clear"}, t \in ScanThresholds,
        loss \in BOOLEAN}

\* imageUtils.ts:233: scanForSprites(imageSrc, threshold) resolves.
ScanForSprites ==
    /\ geo.op = "scan"
    /\ ~geo.done
    /\ geo' = [op |-> "scan", done |-> TRUE, loss |-> geo.loss,
               threshold |-> geo.threshold, img |-> geo.img,
               unitX |-> imgWidth(geo.img), unitY |-> imgHeight(geo.img),
               regions |-> scanForSprites(geo.img, geo.threshold, geo.loss)]
    /\ UNCHANGED appVars

\* The values a reply is made of, by the scale it is written in: fractions
\* of the image (and a missing value), thousandths (125 of them are 64 px
\* of a 512 px side), pixels.
ReplyValues ==
    { {NaN, Num(0 - 1), Num(1), Num(RawUnit - 1), Num(RawUnit + 1)},
      {Num(0), Num(125 * RawUnit), Num(250 * RawUnit), Num(750 * RawUnit),
       Num(1000 * RawUnit)},
      {Num(0), Num(300 * RawUnit), Num(900 * RawUnit), Num(1200 * RawUnit)} }

ImageSizes == {<<512, 384>>, <<1536, 1024>>}

\* A reply of one or two boxes.
Replies ==
    UNION {
      {<<[form |-> f, v |-> v]>> : f \in {"array", "object"}, v \in [1..4 -> V]}
      \cup
      {<<[form |-> "array", v |-> <<a, a, b, b>>],
         [form |-> f, v |-> SubSeq(<<c, a, b, c>>, 1, n)]>> :
          a \in V, b \in V, c \in V, f \in {"array", "object", "text"},
          n \in {3, 4}}
      : V \in ReplyValues }

ReplyInputs ==
    {[op |-> "ai", done |-> FALSE, boxes |-> bs, size |-> sz] :
        bs \in Replies, sz \in ImageSizes}

\* geminiService.ts:200: detectSegments resolves with the boxes of the
\* parsed reply.
DetectSegments ==
    /\ geo.op = "ai"
    /\ ~geo.done
    /\ LET r == detectSegments(geo.boxes, geo.size[1], geo.size[2])
       IN geo' = [op |-> "ai", done |-> TRUE, boxes |-> geo.boxes,
                  size |-> geo.size, unitX |-> r.one, unitY |-> r.one,
                  extents |-> r.extents, mapped |-> r.mapped,
                  regions |-> r.regions]
    /\ UNCHANGED appVars

\* The reply texts of up to MaxText pieces, for an image of 512 x 384.
TextInputs ==
    {[op |-> "text", done |-> FALSE, text |-> t, size |-> <<512, 384>>] :
        t \in UNION {[1..n -> Pieces] : n \in 0..MaxText}}

\* geminiService.ts:200: detectSegments settles for the reply `text`.
DetectFromText ==
    /\ geo.op = "text"
    /\ ~geo.done
    /\ LET r == detectSegmentsOfText(geo.text, geo.size[1], geo.size[2])
       IN geo' = [op |-> "text", done |-> TRUE, text |-> geo.text,
                  size |-> geo.size, error |-> r.error, result |-> r.result,
                  unitX |-> r.one, unitY |-> r.one, regions |-> r.regions]
    /\ UNCHANGED appVars

\* The lists of up to MaxBoxes boxes, box k under the id k - 1.  A box
\* takes one of the spans <<start, length>> along each axis: the second
\* span of spansX is 1 pixel past the first (inside the 2 pixels of the
\* buffer), the third 2 pixels past it (not inside), the fourth within the
\* buffer of the second and third only.
MergeInputs ==
    LET spansX == {<<0, 10>>, <<11, 10>>, <<12, 10>>, <<22, 10>>}
        spansY == {<<0, 10>>, <<11, 10>>, <<30, 10>>}
        rects == {[x |-> sx[1], y |-> sy[1], width |-> sx[2], height |-> sy[2]] :
                     sx \in spansX, sy \in spansY}
    IN {[op |-> "merge", pc |-> "while", run |-> 1, boxes |-> Numbered(l),
         mergedBoxes |-> Numbered(l), hasMerged |-> TRUE, i |-> 1, j |-> 2,
         first |-> <<>>] :
           l \in UNION {[1..n -> rects] : n \in 0..MaxBoxes}}

\* imageUtils.ts:43-44, 59: the head of the while loop of
\* mergeOverlappingBoxes, and its return.
MergeWhile ==
    /\ geo.op = "merge"
    /\ geo.pc = "while"
    /\ geo' = IF geo.hasMerged
              THEN [geo EXCEPT !.hasMerged = FALSE, !.i = 1, !.j = 2, !.pc = "for"]
              ELSE [geo EXCEPT !.pc = "return"]
    /\ UNCHANGED appVars

\* imageUtils.ts:45-57: one turn of the for loops.
MergeFor ==
    /\ geo.op = "merge"
    /\ geo.pc = "for"
    /\ geo' = IF geo.i > Len(geo.mergedBoxes)
              THEN [geo EXCEPT !.pc = "while"]
              ELSE LET t == ForTurn(geo.mergedBoxes, geo.i, geo.j, geo.hasMerged,
                                    MergeSide, MergeSide)
                   IN [geo EXCEPT !.mergedBoxes = t[1], !.i = t[2], !.j = t[3],
                                  !.hasMerged = t[4]]
    /\ UNCHANGED appVars

\* mergeOverlappingBoxes is called on the list it returned.
MergeAgain ==
    /\ geo.op = "merge"
    /\ geo.pc = "return"
    /\ geo.run = 1
    /\ geo' = [geo EXCEPT !.run = 2, !.first = geo.mergedBoxes,
                          !.boxes = geo.mergedBoxes, !.hasMerged = TRUE,
                          !.i = 1, !.j = 2, !.pc = "while"]
    /\ UNCHANGED appVars

\* imageUtils.ts:268-273 and 296-300: the pixel at index n is neither
\* transparent nor within the threshold (20, the default) of the colour of
\* pixel 0.
IsForeground(g, n) ==
    /\ Alpha(g.kind[n]) >= 10
    /\ colorDistance(Shade(g.kind[n], 0, 0), Shade(g.kind[0], 0, 0), Max(10, 20))

\* imageUtils.ts:263-276: one turn of the scan loops, outside the flood
\* fill: a visited pixel is passed over, a transparent one marked, a
\* foreground one seeds a component.
ScanPixel ==
    /\ geo.op = "flood"
    /\ geo.stack = <<>>
    /\ geo.p < geo.width * geo.height
    /\ geo' = IF geo.visited[geo.p] > 0 THEN [geo EXCEPT !.p = geo.p + 1]
              ELSE IF Alpha(geo.kind[geo.p]) < 10
              THEN [geo EXCEPT !.visited[geo.p] = 1, !.p = geo.p + 1]
              ELSE IF IsForeground(geo, geo.p)
              THEN [geo EXCEPT !.visited[geo.p] = 1, !.stack = <<geo.p>>,
                               !.cells = {},
                               !.rect = [minX |-> geo.p % geo.width,
                                         maxX |-> geo.p % geo.width,
                                         minY |-> geo.p \div geo.width,
                                         maxY |-> geo.p \div geo.width]]
              ELSE [geo EXCEPT !.p = geo.p + 1]
    /\ UNCHANGED appVars

\* imageUtils.ts:289-305: the loop over the neighbours ns of the pixel
\* curr, on st = [visited, stack].
RECURSIVE Neighbours(_, _, _, _)
Neighbours(g, curr, ns, st) ==
    IF ns = <<>> THEN st
    ELSE LET n == Head(ns)
             cx == curr % g.width
             cy == curr \div g.width
         IN Neighbours(g, curr, Tail(ns),
              IF ~(n >= 0 /\ n < g.width * g.height) THEN st
              ELSE IF st.visited[n] > 0 THEN st
              ELSE IF Abs((n % g.width) - cx) > 1 \/ Abs((n \div g.width) - cy) > 1
              THEN st
              ELSE IF Alpha(g.kind[n]) < 10
              THEN [st EXCEPT !.visited[n] = @ + 1]
              ELSE IF IsForeground(g, n)
              THEN [visited |-> [st.visited EXCEPT ![n] = @ + 1],
                    stack |-> Append(st.stack, n)]
              ELSE st)

\* imageUtils.ts:278-317: one turn of the while loop of the flood fill,
\* and, when it leaves the stack empty, the end of the component: its box
\* is pushed when it is large enough, and the scan moves on.
FloodPop ==
    /\ geo.op = "flood"
    /\ geo.stack # <<>>
    /\ \E curr \in {geo.stack[Len(geo.stack)]} :
       \E st \in {Neighbours(geo, curr,
                             <<curr - 1, curr + 1, curr - geo.width, curr + geo.width>>,
                             [visited |-> geo.visited,
                              stack |-> SubSeq(geo.stack, 1, Len(geo.stack) - 1)])} :
       \E rect \in {[minX |-> Min(geo.rect.minX, curr % geo.width),
                     maxX |-> Max(geo.rect.maxX, curr % geo.width),
                     minY |-> Min(geo.rect.minY, curr \div geo.width),
                     maxY |-> Max(geo.rect.maxY, curr \div geo.width)]} :
          geo' = IF st.stack # <<>>
                 THEN [geo EXCEPT !.visited = st.visited, !.stack = st.stack,
                                  !.rect = rect, !.cells = geo.cells \cup {curr}]
                 ELSE [geo EXCEPT
                         !.visited = st.visited, !.stack = <<>>, !.rect = <<>>,
                         !.cells = {}, !.p = geo.p + 1,
                         !.comps = Append(geo.comps,
                                          [cells |-> geo.cells \cup {curr},
                                           rect |-> rect]),
                         !.boxes =
                            IF /\ rect.maxX - rect.minX + 1 >= MinDimension
                               /\ 20 * (rect.maxX - rect.minX + 1)
                                    >= Min(geo.width, geo.height)
                               /\ rect.maxY - rect.minY + 1 >= MinDimension
                               /\ 20 * (rect.maxY - rect.minY + 1)
                                    >= Min(geo.width, geo.height)
                            THEN Append(geo.boxes,
                                   [id |-> Len(geo.boxes), x |-> rect.minX,
                                    y |-> rect.minY,
                                    width |-> rect.maxX - rect.minX + 1,
                                    height |-> rect.maxY - rect.minY + 1])
                            ELSE geo.boxes]
    /\ UNCHANGED appVars

\* A buffer of panels of one texture (odd bands) with gutters between them
\* (even bands): of solid background ("paper") or fully transparent
\* ("clear").  With `bridge` the panel texture also fills the cells where a
\* row gutter crosses a column gutter.
Panels(cl, rl, texture, gutter, bridge) ==
    [cols |-> cl, rows |-> rl,
     kind |-> [r \in 1..Len(rl) |-> [c \in 1..Len(cl) |->
                 IF r % 2 = 1 /\ c % 2 = 1 THEN texture
                 ELSE IF bridge /\ r % 2 = 0 /\ c % 2 = 0 THEN texture
                 ELSE gutter]]]

\* splitBox is handed the whole of a buffer.  Panels with solid gutters:
\* 200 px wide in one piece or with a gutter at columns 90..149 or 90..109,
\* 100 px high in one piece or 200 px with a gutter of 60 or 20 rows.
\* Panels with a transparent gutter of 60 rows, whole or bridged by an
\* opaque sliver 2 px wide.  Panels whose gutter of 20 px leaves exactly
\* 30 px after or before it, and panels with a gutter 20 px from the edge
\* and one of 3 px before a third that qualifies, along either axis.
SplitInputs ==
    LET whole(img, t) ==
            [op |-> "split", img |-> img, threshold |-> t,
             box |-> [minX |-> 0, minY |-> 0, maxX |-> imgWidth(img) - 1,
                      maxY |-> imgHeight(img) - 1],
             stack |-> <<[minX |-> 0, minY |-> 0, maxX |-> imgWidth(img) - 1,
                          maxY |-> imgHeight(img) - 1]>>,
             regions |-> <<>>]
        edges == {<<90, 20, 30>>, <<30, 20, 90>>, <<20, 20, 40, 3, 40, 20, 60>>}
    IN {whole(Panels(cl, rl, texture, "paper", FALSE), t) :
            cl \in {<<200>>, <<90, 60, 50>>, <<90, 20, 90>>},
            rl \in {<<100>>, <<90, 60, 50>>, <<90, 20, 90>>},
            texture \in {"checker", "stripes", "bars"},
            t \in {1, 50, 100}}
       \cup
       {whole(Panels(cl, <<90, 60, 50>>, "checker", "clear", bridge), t) :
            cl \in {<<200>>, <<99, 2, 99>>}, bridge \in BOOLEAN, t \in {50, 100}}
       \cup
       {whole(Panels(<<200>>, rl, "checker", "paper", FALSE), 100) : rl \in edges}
       \cup
       {whole(Panels(cl, <<100>>, "checker", "paper", FALSE), 100) : cl \in edges}

\* imageUtils.ts:129-231: one call of splitBox, on the box that the
\* recursion reaches next (`stack` holds the calls still to come, in
\* order); it recurses on two boxes or returns one region.
SplitBox ==
    /\ geo.op = "split"
    /\ geo.stack # <<>>
    /\ \E box \in {Head(geo.stack)} :
       \E level \in {SplitLevel(box, Buffer(geo.img), geo.threshold)} :
          geo' = IF level.axis \in {"row", "col"}
                 THEN [geo EXCEPT !.stack = SubBoxes(box, level) \o Tail(geo.stack)]
                 ELSE [geo EXCEPT !.stack = Tail(geo.stack),
                                  !.regions = Append(geo.regions, BoxRegion(box))]
    /\ UNCHANGED appVars

(* --------------------------- specifications ---------------------------- *)

NewFile(id, status, mode) ==
    [id |-> id, status |-> status, slices |-> "grid", mode |-> mode]

\* The state 0 ms after handleRunBatch('AI') on a working set of JobCount
\* imported files, some of them selected: App.tsx:541-562.
InitBatch ==
    /\ \E sel \in (SUBSET (1..JobCount)) \ {{}} :
         files = [i \in 1..JobCount |->
                    IF i \in sel THEN NewFile(i, "queued", "AI_AUTO")
                    ELSE NewFile(i, "idle", "GRID")]
    /\ filesRef = files
    /\ queueProcessing = FALSE
    /\ isProcessing = TRUE
    /\ isPaused = FALSE
    /\ rendered = [queueProcessing |-> FALSE, isPaused |-> FALSE,
                   isProcessing |-> TRUE]
    /\ concurrency \in 1..MaxConcurrency
    /\ isPausedRef = FALSE
    /\ cancelQueueRef = FALSE
    /\ timers = <<[queueProcessing |-> FALSE, concurrency |-> concurrency]>>
    /\ runs = [r \in 1..MaxRuns |-> IdleRun]
    /\ clearing = FALSE
    /\ resetTimer = "none"
    /\ nextId = JobCount + 1
    /\ clicks = 1
    /\ geo = NoCall

NextBatch ==
    \/ ProcessQueueFire
    \/ \E r \in DOMAIN runs : LoopHead(r)
    \/ \E r \in DOMAIN runs : PausePoll(r)
    \/ \E r \in DOMAIN runs : AfterPause(r)
    \/ \E r \in DOMAIN runs, k \in 1..MaxConcurrency, o \in {"done", "error"} :
            Settle(r, k, o)
    \/ Render
    \/ handlePauseResume
    \/ \E id \in Ids(filesRef) : removeFileFromApp(id)
    \/ clearAllFiles
    \/ ClearAllDone
    \/ CancelReset

SpecBatch == InitBatch /\ [][NextBatch]_vars

\* The same, RoundJobs files, and nobody deletes a file or clears the
\* workspace while the batch runs.
InitRounds ==
    /\ \E sel \in (SUBSET (1..RoundJobs)) \ {{}} :
         files = [i \in 1..RoundJobs |->
                    IF i \in sel THEN NewFile(i, "queued", "AI_AUTO")
                    ELSE NewFile(i, "idle", "GRID")]
    /\ filesRef = files
    /\ queueProcessing = FALSE
    /\ isProcessing = TRUE
    /\ isPaused = FALSE
    /\ rendered = [queueProcessing |-> FALSE, isPaused |-> FALSE,
                   isProcessing |-> TRUE]
    /\ concurrency \in 1..MaxConcurrency
    /\ isPausedRef = FALSE
    /\ cancelQueueRef = FALSE
    /\ timers = <<[queueProcessing |-> FALSE, concurrency |-> concurrency]>>
    /\ runs = [r \in 1..MaxRuns |-> IdleRun]
    /\ clearing = FALSE
    /\ resetTimer = "none"
    /\ nextId = RoundJobs + 1
    /\ clicks = 1
    /\ geo = NoCall

NextRounds ==
    \/ ProcessQueueFire
    \/ \E r \in DOMAIN runs : LoopHead(r)
    \/ \E r \in DOMAIN runs : PausePoll(r)
    \/ \E r \in DOMAIN runs : AfterPause(r)
    \/ \E r \in DOMAIN runs, k \in 1..MaxConcurrency, o \in {"done", "error"} :
            Settle(r, k, o)
    \/ Render
    \/ handlePauseResume

SpecRounds == InitRounds /\ [][NextRounds]_vars

\* The application from its start: App.tsx:35-53.
AppStart ==
    /\ files = <<>>
    /\ filesRef = <<>>
    /\ queueProcessing = FALSE
    /\ isProcessing = FALSE
    /\ isPaused = FALSE
    /\ rendered = [queueProcessing |-> FALSE, isPaused |-> FALSE,
                   isProcessing |-> FALSE]
    /\ concurrency = 1
    /\ isPausedRef = FALSE
    /\ cancelQueueRef = FALSE
    /\ timers = <<>>
    /\ runs = [r \in 1..MaxRuns |-> IdleRun]
    /\ clearing = FALSE
    /\ resetTimer = "none"
    /\ nextId = 1
    /\ clicks = 0

Init == AppStart /\ geo = NoCall

Next ==
    \/ NextBatch
    \/ \E m \in BatchModes, t \in SUBSET (1..MaxFiles) : BatchButton(m, t)
    \/ \E m \in BatchModes, t \in SUBSET (1..MaxFiles) : onApplySettingsToAll(m, t)
    \/ \E v \in 1..MaxSlider : setConcurrency(v)
    \/ addFilesToApp

Spec == Init /\ [][Next]_vars

\* The state 0 ms after handleRunBatch('AI') on a working set of two files
\* that loadFilesFromDB restored (App.tsx:153-166, 541-562), all of them
\* selected; their ids are not ids of files imported later.
InitRestored ==
    /\ files = [i \in 1..2 |-> NewFile(MaxFiles + i, "queued", "AI_AUTO")]
    /\ filesRef = files
    /\ queueProcessing = FALSE
    /\ isProcessing = TRUE
    /\ isPaused = FALSE
    /\ rendered = [queueProcessing |-> FALSE, isPaused |-> FALSE,
                   isProcessing |-> TRUE]
    /\ concurrency \in 1..MaxSlider
    /\ isPausedRef = FALSE
    /\ cancelQueueRef = FALSE
    /\ timers = <<[queueProcessing |-> FALSE, concurrency |-> concurrency]>>
    /\ runs = [r \in 1..MaxRuns |-> IdleRun]
    /\ clearing = FALSE
    /\ resetTimer = "none"
    /\ nextId = 1
    /\ clicks = 1
    /\ geo = NoCall

\* That batch, and the workspace is cleared, files are imported and a batch
\* button is pressed while it runs; nobody pauses it or deletes one file.
NextClear ==
    \/ ProcessQueueFire
    \/ \E r \in DOMAIN runs : LoopHead(r)
    \/ \E r \in DOMAIN runs, k \in 1..MaxConcurrency, o \in {"done", "error"} :
            Settle(r, k, o)
    \/ Render
    \/ clearAllFiles
    \/ ClearAllDone
    \/ CancelReset
    \/ addFilesToApp
    \/ \E m \in BatchModes, t \in SUBSET (1..MaxFiles) : BatchButton(m, t)

SpecClear == InitRestored /\ [][NextClear]_vars

\* That batch, and the file shown is edited while it runs: regions are
\* drawn on the canvas and mode tabs are clicked.
NextEdit ==
    \/ ProcessQueueFire
    \/ \E r \in DOMAIN runs : LoopHead(r)
    \/ \E r \in DOMAIN runs, k \in 1..MaxConcurrency, o \in {"done", "error"} :
            Settle(r, k, o)
    \/ Render
    \/ \E id \in Ids(filesRef) : onSlicesChange(id)
    \/ \E id \in Ids(filesRef), mode \in {"GRID", "MANUAL"} :
            handleModeChange(id, mode)

SpecEdit == InitRestored /\ [][NextEdit]_vars

\* One detection call, on any sheet of SheetInputs or any reply of
\* ReplyInputs, in an application that does nothing else.
InitRegions == AppStart /\ geo \in SheetInputs \cup ReplyInputs

NextRegions ==
    \/ ScanForSprites
    \/ DetectSegments

SpecRegions == InitRegions /\ [][NextRegions]_vars

\* One detectSegments call on any reply text of TextInputs.
InitParse == AppStart /\ geo \in TextInputs

SpecParse == InitParse /\ [][DetectFromText]_vars

\* mergeOverlappingBoxes, turn by turn, on any list of MergeInputs, and
\* once more on what it returned.
NextMerge ==
    \/ MergeWhile
    \/ MergeFor
    \/ MergeAgain

InitMerge == AppStart /\ geo \in MergeInputs

SpecMerge == InitMerge /\ [][NextMerge]_vars

\* splitBox, call by call, on any buffer of SplitInputs.
InitSplit == AppStart /\ geo \in SplitInputs

SpecSplit == InitSplit /\ [][SplitBox]_vars

\* The scan loops and the flood fill of scanForSprites, turn by turn, on
\* any buffer of up to MaxCells pixels, every pixel solid background colour
\* ("paper"), solid black ("ink") or fully transparent ("clear").  At the
\* start of the loops of imageUtils.ts:261 `p` is the pixel y * width + x
\* they are at, `visited` how often each visited[...] = 1 has run, `rect`
\* and `cells` the bounds and the popped pixels of the component being
\* filled, `comps` those of the components filled so far.
InitFlood ==
    /\ AppStart
    /\ \E w \in 1..MaxCells, h \in 1..MaxCells :
          /\ w * h <= MaxCells
          /\ \E k \in [0..(w * h - 1) -> {"paper", "ink", "clear"}] :
                geo = [op |-> "flood", width |-> w, height |-> h, kind |-> k,
                       visited |-> [n \in 0..(w * h - 1) |-> 0], p |-> 0,
                       stack |-> <<>>, rect |-> <<>>, cells |-> {},
                       comps |-> <<>>, boxes |-> <<>>]

SpecFlood == InitFlood /\ [][ScanPixel \/ FloodPop]_vars

\* One imported file shown in the editor, its history empty (App.tsx:73,
\* 76-81) or filled by n edits on the canvas, each of which put the
\* regions before it on the undo stack.
InitHistory ==
    /\ AppStart
    /\ \E n \in 0..HistoryLimit :
          geo = [op |-> "history", slices |-> n, shown |-> n,
                 undo |-> [i \in 1..n |-> i - 1], redo |-> <<>>,
                 edits |-> n, first |-> n, undos |-> 0, last |-> "none",
                 before |-> NoSnapshot]

NextHistory ==
    \/ EditorChange
    \/ DetectCommit
    \/ RenderShown
    \/ handleUndo
    \/ handleRedo

SpecHistory == InitHistory /\ [][NextHistory]_vars

(* ------------------------------ fairness ------------------------------- *)

\* SpecBatch with the scheduling the event loop gives: a due timer fires, a
\* queued continuation runs, React renders what is pending, a pending
\* clearDB resolves.  Every detection settles, and the 200 ms poll sees a
\* pause flag that is clear again and again.
LiveBatch ==
    /\ SpecBatch
    /\ WF_vars(ProcessQueueFire)
    /\ WF_vars(Render)
    /\ WF_vars(ClearAllDone)
    /\ WF_vars(CancelReset)
    /\ \A r \in 1..MaxRuns :
         /\ WF_vars(LoopHead(r))
         /\ WF_vars(AfterPause(r))
         /\ SF_vars(PausePoll(r))
         /\ WF_vars(\E k \in 1..MaxConcurrency, o \in {"done", "error"} :
                        Settle(r, k, o))

\* SpecMerge with the loops running on: mergeOverlappingBoxes is
\* synchronous code, nothing suspends it.
LiveMerge == SpecMerge /\ WF_vars(MergeWhile) /\ WF_vars(MergeFor)

(* ------------------------------ properties ----------------------------- *)

\* This step dispatches a round of run r.
Dispatches(r) == Len(runs'[r].rounds) = Len(runs[r].rounds) + 1

\* The round this step dispatches.
NewRound(r) == runs'[r].rounds[Len(runs'[r].rounds)]

\* In this step job k of the batch of run r settles.
Settles(r, k) ==
    /\ k \in DOMAIN runs[r].batch
    /\ k \in DOMAIN runs'[r].batch
    /\ runs[r].batch[k].st = "flying"
    /\ runs'[r].batch[k].st # "flying"

QueuedAt(fs) == {i \in DOMAIN fs : fs[i].status = "queued"}

\* The positions of the first n queued files of fs.
FirstQueued(fs, n) ==
    {i \in QueuedAt(fs) : Cardinality({j \in QueuedAt(fs) : j < i}) < n}

PositionOf(fs, id) == CHOOSE i \in DOMAIN fs : fs[i].id = id

Settled(fs) == {fs[i].id : i \in {j \in DOMAIN fs : fs[j].status \in {"done", "error"}}}

RoundSizes(r) == [i \in DOMAIN runs[r].rounds |-> Len(runs[r].rounds[i])]

\* C1, a step: a round is dispatched only when no job of the round before
\* it is still in flight, and it is made of the first min(concurrency,
\* number queued) queued jobs of the working set, in working-set order.
C1_Round(r) ==
    Dispatches(r) =>
        /\ InFlight(r) = {}
        /\ Len(NewRound(r)) = Min(runs[r].conc, Cardinality(QueuedAt(files)))
        /\ {NewRound(r)[n] : n \in DOMAIN NewRound(r)}
              = {files[i].id : i \in FirstQueued(files, runs[r].conc)}
        /\ \A m, n \in DOMAIN NewRound(r) :
              m < n => PositionOf(files, NewRound(r)[m]) < PositionOf(files, NewRound(r)[n])

\* C1, the end: a run that has worked off Q jobs with limit c did it in
\* ceil(Q / c) rounds, round i of size min(c, Q - (i - 1) c); 5 jobs with
\* limit 2 are the rounds of sizes 2, 2, 1.
C1_Sizes ==
    \A r \in DOMAIN runs :
        runs[r].pc = "done" =>
            LET Q == Cardinality(Settled(files))
                c == runs[r].conc
            IN /\ Len(runs[r].rounds) = (Q + c - 1) \div c
               /\ \A i \in DOMAIN runs[r].rounds :
                      RoundSizes(r)[i] = Min(c, Q - (i - 1) * c)
               /\ (Q = 5 /\ c = 2 => RoundSizes(r) = <<2, 2, 1>>)

\* C1: dispatch is round-based.  Each round is the first min(concurrency,
\* number queued) jobs queued at its start, in working-set order; no round
\* is selected before every job of the round before it has settled; 5
\* queued jobs with limit 2 are processed in exactly 3 rounds of sizes 2, 2, 1.
C1_RoundBased == [][(\A r \in DOMAIN runs : C1_Round(r)) /\ C1_Sizes']_vars

\* C1 witness: a run over 5 queued jobs with limit 2 has ended after rounds
\* of 2, 2 and 1 jobs.
C1_Witness ==
    \E r \in DOMAIN runs :
        /\ runs[r].pc = "done"
        /\ runs[r].conc = 2
        /\ Cardinality(Settled(files)) = 5
        /\ RoundSizes(r) = <<2, 2, 1>>

\* Detection calls dispatched and not yet settled, over every run.
InFlightTotal ==
    Cardinality({rk \in (DOMAIN runs) \X (1..MaxConcurrency) : rk[2] \in InFlight(rk[1])})

\* C2: the number of detection calls in flight never exceeds the
\* concurrency limit, whatever the limit (1..5) and however completions,
\* pause, cancel and file removal interleave.
C2_Bounded ==
    /\ concurrency \in 1..MaxConcurrency
    /\ InFlightTotal <= concurrency

\* C2 witness: the limit is 2, two calls are in flight, a file has been
\* removed from the working set and the pause flag is set.
C2_Witness ==
    /\ concurrency = 2
    /\ InFlightTotal = 2
    /\ Len(files) < JobCount
    /\ isPausedRef

\* C3 as stated: at most one run loop is active at any time.
C3_SingleRun == Cardinality({r \in DOMAIN runs : Active(r)}) <= 1

\* The jobs of the rounds of run r that were complete when its current
\* batch was dispatched.
CompletedRounds(r) ==
    UNION {{runs[r].rounds[i][n] : n \in DOMAIN runs[r].rounds[i]} :
              i \in 1..(Len(runs[r].rounds) - 1)}

\* Run r had jobs in flight when clearAllFiles raised the cancel flag.
Interrupted(r) == \E k \in DOMAIN runs[r].batch : runs[r].batch[k].doomed

\* C4, first half: a job that was in flight when cancellation was signalled
\* commits nothing when it settles.
C4_NoLateCommit ==
    \A r \in DOMAIN runs : \A k \in 1..MaxConcurrency :
        Settles(r, k) /\ runs[r].batch[k].doomed =>
            /\ files' = files
            /\ runs'[r].batch[k].st = "returned0"

\* C4 as stated: ... and the done/error statuses of the working set are
\* exactly those of the rounds that were complete before the cancellation.
C4_OnlyWholeRounds ==
    \A r \in DOMAIN runs :
        Interrupted(r) => Settled(files) = CompletedRounds(r) \cap Ids(files)

\* C4 as stated.
C4_AsStated == [][C4_NoLateCommit /\ C4_OnlyWholeRounds']_vars

\* The jobs of the current batch of run r that have committed.
Returned1(r) ==
    {runs[r].batch[k].file.id :
        k \in {j \in DOMAIN runs[r].batch : runs[r].batch[j].st = "returned1"}}

\* C4 amended, second half: the done/error statuses of the working set are
\* exactly those of the jobs that settled before the cancellation: the jobs
\* of the complete rounds and the jobs of the interrupted round that had
\* already committed.
C4_OnlySettledBefore ==
    \A r \in DOMAIN runs :
        Interrupted(r) =>
            Settled(files) = (CompletedRounds(r) \cup Returned1(r)) \cap Ids(files)

\* C4 amended: no job that is in flight when cancellation is signalled
\* commits a region set or a status afterwards, and the done/error statuses
\* of the working set are exactly those committed before the cancellation,
\* by the complete rounds and by the jobs of the interrupted round that had
\* settled already.
C4_Amended == [][C4_NoLateCommit /\ C4_OnlySettledBefore']_vars

\* C4 witness: of one round, one job committed before the cancellation and
\* another, in flight at the cancellation, has settled and been dropped.
C4_Witness ==
    \E r \in DOMAIN runs : \E j, k \in DOMAIN runs[r].batch :
        /\ runs[r].batch[j].st = "returned1"
        /\ runs[r].batch[k].doomed
        /\ runs[r].batch[k].st = "returned0"
        /\ Exists(files, runs[r].batch[k].file.id)

\* Every file but `id` is what and where it was.
OthersUntouched(id) ==
    /\ Len(files') = Len(files)
    /\ \A i \in DOMAIN files :
          /\ files'[i].id = files[i].id
          /\ files[i].id # id => files'[i] = files[i]

\* C5: a detection that fails puts only its own job in status error.  The
\* other jobs of the round stay in flight and commit their own outcome, the
\* run goes on to the next round, and it ends like any other run.
C5_Isolated ==
    \A r \in DOMAIN runs :
        /\ \A k \in 1..MaxConcurrency :
              Settles(r, k) =>
                  /\ OthersUntouched(runs[r].batch[k].file.id)
                  /\ \A j \in DOMAIN runs[r].batch :
                        j # k => runs'[r].batch[j] = runs[r].batch[j]
                  /\ runs'[r].rounds = runs[r].rounds
                  /\ runs'[r].pc = IF InFlight(r) = {k} THEN "head" ELSE "round"
        /\ (/\ runs[r].pc = "head"
            /\ ~cancelQueueRef
            /\ ~isPausedRef
            /\ QueuedAt(filesRef) # {}
            /\ runs'[r] # runs[r]) => Dispatches(r)
        /\ runs'[r].pc \in {"idle", "head", "paused", "afterPause", "round",
                            "done", "cancelled"}

C5_FailureIsolation == [][C5_Isolated]_vars

\* C5 witness: the first round of a run held a job that failed and a job
\* that succeeded, a later round was dispatched, and the run ended.
C5_Witness ==
    \E r \in DOMAIN runs :
        /\ runs[r].pc = "done"
        /\ Len(runs[r].rounds) >= 2
        /\ \E a, b \in DOMAIN runs[r].rounds[1] :
              /\ Exists(files, runs[r].rounds[1][a])
              /\ Exists(files, runs[r].rounds[1][b])
              /\ FileOf(files, runs[r].rounds[1][a]).status = "error"
              /\ FileOf(files, runs[r].rounds[1][b]).status = "done"

\* C6: the result of a job that was removed from the working set while its
\* detection was in flight is dropped: the job is not put back, no status
\* and no regions are committed, no other job changes, and the run goes on.
C6_Step ==
    \A r \in DOMAIN runs : \A k \in 1..MaxConcurrency :
        Settles(r, k) /\ ~Exists(files, runs[r].batch[k].file.id) =>
            /\ files' = files
            /\ runs'[r].pc \in {"round", "head"}

C6_RemovedIsDropped == [][C6_Step]_vars

\* C6 witness: with no cancellation at all, a job whose file is gone has
\* settled and returned without committing, and other files remain.
C6_Witness ==
    \E r \in DOMAIN runs : \E k \in DOMAIN runs[r].batch :
        /\ runs[r].batch[k].st = "returned0"
        /\ ~runs[r].batch[k].doomed
        /\ ~cancelQueueRef
        /\ ~clearing
        /\ resetTimer = "none"
        /\ files # <<>>
        /\ ~Exists(files, runs[r].batch[k].file.id)

Lifecycle == {<<"queued", "processing">>, <<"processing", "done">>,
              <<"processing", "error">>}

\* C7: every status change of a job is queued -> processing, processing ->
\* done or processing -> error, and a round holds no job of the working set
\* whose status is not queued when the round starts.
C7_Step ==
    /\ \A i \in DOMAIN files : \A j \in DOMAIN files' :
          (files'[j].id = files[i].id /\ files'[j].status # files[i].status)
              => <<files[i].status, files'[j].status>> \in Lifecycle
    /\ \A r \in DOMAIN runs :
          Dispatches(r) =>
              \A n \in DOMAIN NewRound(r) :
                  Exists(files, NewRound(r)[n])
                      => FileOf(files, NewRound(r)[n]).status = "queued"

C7_Lifecycle == [][C7_Step]_vars

\* C7 witness: a run has taken one job to done and another to error, and a
\* file that was never queued is still idle.
C7_Witness ==
    /\ \E r \in DOMAIN runs : Len(runs[r].rounds) >= 1
    /\ \E i, j, m \in DOMAIN files :
          /\ files[i].status = "done"
          /\ files[j].status = "error"
          /\ files[m].status = "idle"

\* No run loop is alive and none is about to start.
Quiet == timers = <<>> /\ \A r \in DOMAIN runs : ~Active(r)

\* A run that left its loop through the empty batch has left no job queued
\* or processing.
C8_Clean ==
    (\E r \in DOMAIN runs : runs[r].pc = "done") =>
        \A i \in DOMAIN files : files[i].status \notin {"queued", "processing"}

\* C8: if every detection settles and a set pause flag is cleared again,
\* every run ends; a run that ends without cancellation leaves no job of
\* the working set queued or processing.
C8_Terminates == (([]<>~isPausedRef) => <>[]Quiet) /\ []C8_Clean

\* C8 witness: a run that was paused and resumed on its way has ended by
\* running out of queued jobs, after more than one round.
C8_Witness ==
    \E r \in DOMAIN runs :
        /\ runs[r].pc = "done"
        /\ runs[r].resumed
        /\ Len(runs[r].rounds) >= 2
        /\ Settled(files) # {}

\* C9: the pause flag is looked at between rounds only.  Setting it leaves
\* the round in flight alone; while it is set no round is dispatched; a job
\* that settles while it is set commits as usual; once it is clear the loop
\* dispatches the next round, or leaves without dispatching when it finds
\* the cancel flag set.
C9_Step ==
    \A r \in DOMAIN runs :
        /\ Dispatches(r) => ~isPausedRef /\ ~isPausedRef'
        /\ (isPausedRef' /\ ~isPausedRef) =>
              /\ runs'[r].pc = runs[r].pc
              /\ runs'[r].rounds = runs[r].rounds
              /\ \A k \in DOMAIN runs[r].batch :
                    runs'[r].batch[k].st = runs[r].batch[k].st
        /\ (runs'[r].pc = "paused" /\ runs[r].pc # "paused") =>
              runs[r].pc = "head" /\ InFlight(r) = {} /\ isPausedRef
        /\ \A k \in 1..MaxConcurrency :
              (/\ Settles(r, k)
               /\ isPausedRef
               /\ ~cancelQueueRef
               /\ Exists(filesRef, runs[r].batch[k].file.id)
               /\ Exists(files, runs[r].batch[k].file.id)) =>
                  /\ runs'[r].batch[k].st = "returned1"
                  /\ FileOf(files', runs[r].batch[k].file.id).status
                        \in {"done", "error"}
        /\ (runs[r].pc = "paused" /\ runs'[r].pc # "paused") =>
              ~isPausedRef \/ cancelQueueRef
        /\ (runs[r].pc = "afterPause" /\ runs'[r] # runs[r]) =>
              IF cancelQueueRef
              THEN /\ runs'[r].pc = "cancelled"
                   /\ runs'[r].rounds = runs[r].rounds
                   /\ files' = files
              ELSE QueuedAt(filesRef) # {} => Dispatches(r)

C9_CooperativePause == [][C9_Step]_vars

\* C9 witness: a run is in a round it dispatched after waiting out a pause,
\* and a job of an earlier round committed.
C9_Witness ==
    \E r \in DOMAIN runs :
        /\ runs[r].resumed
        /\ runs[r].pc = "round"
        /\ Settled(files) # {}

\* C10: every region that scanForSprites or detectSegments returns has
\* 0 <= x, 0 <= y, x + width <= 1 and y + height <= 1.
C10_InsideImage ==
    (geo.op # "none" /\ geo.done) =>
        \A i \in DOMAIN geo.regions :
            /\ 0 <= geo.regions[i].x
            /\ 0 <= geo.regions[i].y
            /\ geo.regions[i].x + geo.regions[i].width <= geo.unitX
            /\ geo.regions[i].y + geo.regions[i].height <= geo.unitY

\* C10 witness: a scan has returned two regions that reach the right edge
\* of the buffer, the second of them the bottom edge too.
C10_Witness ==
    /\ geo.op = "scan"
    /\ geo.done
    /\ Len(geo.regions) = 2
    /\ \A i \in DOMAIN geo.regions :
          geo.regions[i].x + geo.regions[i].width = geo.unitX - 1
    /\ geo.regions[2].y + geo.regions[2].height = geo.unitY - 1

\* The reply text has been parsed and no box came of it: the value has no
\* boxes list, or an empty one, or no strategy could parse the text.
NoBoxParsed ==
    /\ geo.op = "text"
    /\ geo.done
    /\ geo.text # <<>>
    /\ (~geo.result.has \/ geo.result.boxes = <<>>)

\* C11: whenever no box survives the parsing of the reply text, the caller
\* of detectSegments gets the "unparsable" failure, never an empty list of
\* regions.
C11_ExplicitFailure == NoBoxParsed => geo.error = "unparsable"

Strategies == <<"direct", "fenced", "object", "regex">>

\* The boxes strategy s gets from the text when it is tried (<<>>: none).
Yield(text, s) ==
    LET source == CASE s = "direct" -> [match |-> TRUE, text |-> text]
                    [] s = "fenced" -> FencedBlock(text)
                    [] s = "object" -> BareObject(text)
                    [] s = "regex"  -> [match |-> FALSE, text |-> <<>>]
        value == JSONParse(source.text)
    IN IF s = "regex" THEN BoxArrays(text, 1)
       ELSE IF source.match /\ value.ok /\ value.has THEN value.boxes
       ELSE <<>>

\* The strategies that get boxes from the text, by their place in the chain.
Yielding(text) == {k \in DOMAIN Strategies : Yield(text, Strategies[k]) # <<>>}

\* C18: the strategies are tried in the order direct parse, fenced block,
\* bare object, regex recovery, each when all earlier ones gave no boxes,
\* and the first that gives boxes decides: its boxes are the parsed boxes
\* and no failure is raised.
C18_FirstYieldDecides ==
    (geo.op = "text" /\ geo.done /\ Yielding(geo.text) # {}) =>
        LET first == Strategies[SetMin(Yielding(geo.text))]
        IN /\ geo.error = "none"
           /\ geo.result.by = first
           /\ geo.result.boxes = Yield(geo.text, first)

\* The largest absolute numeric value over all boxes, arrays and
\* named-corner objects alike, as a count of 1 / RawUnit.
RECURSIVE LargestAbs(_, _)
LargestAbs(boxes, k) ==
    IF k > Len(boxes) THEN 0
    ELSE LET vs == IF boxes[k].form \in {"array", "object"}
                   THEN {Abs(boxes[k].v[j].n) :
                            j \in {j \in DOMAIN boxes[k].v : ~boxes[k].v[j].nan}}
                   ELSE {}
         IN Max(SetMax(vs \cup {0}), LargestAbs(boxes, k + 1))

\* The scale the claim gives for that largest value.
ClaimedScale(boxes, imgW, imgH) ==
    LET maxVal == LargestAbs(boxes, 1)
    IN IF 2 * maxVal <= 3 * RawUnit THEN 1
       ELSE IF maxVal <= 1000 * RawUnit THEN 1000
       ELSE Min(Max(imgW, imgH), MaxCompressedSize)

\* The regions rs over one1 are the regions qs over one2.
SameRegions(rs, one1, qs, one2) ==
    /\ Len(rs) = Len(qs)
    /\ \A i \in DOMAIN rs :
          /\ rs[i].x * one2 = qs[i].x * one1
          /\ rs[i].y * one2 = qs[i].y * one1
          /\ rs[i].width * one2 = qs[i].width * one1
          /\ rs[i].height * one2 = qs[i].height * one1

\* C12: detectSegments divides every box's four values by one scale, 1,
\* 1000 or the larger side of the resized image as the largest absolute
\* value over all boxes (arrays and objects alike) is at most 1.5, at most
\* 1000 or more: its regions are those the boxes give at that scale.
C12_ScaleOfLargestValue ==
    (geo.op = "ai" /\ geo.done) =>
        LET one == RawUnit * ClaimedScale(geo.boxes, geo.size[1], geo.size[2])
        IN SameRegions(geo.regions, geo.unitX,
                       MapFilter(geo.boxes, 1, one, geo.size[1], geo.size[2]), one)

\* Box k of the reply is an array of at least four values, the first four
\* of them numbers.
FourNumbers(k) ==
    /\ geo.boxes[k].form = "array"
    /\ Len(geo.boxes[k].v) >= 4
    /\ \A j \in 1..4 : ~geo.boxes[k].v[j].nan

\* C13: a 4-number box [v0, v1, v2, v3] is read as [ymin, xmin, ymax, xmax];
\* when v0 > v2 or v1 > v3 it is taken instead with origin (min(v0, v2),
\* min(v1, v3)) and far corner (max(v0, v2), max(v1, v3)); either way its
\* width and height before the clamp are not negative.
C13_AxisResolution ==
    (geo.op = "ai" /\ geo.done) =>
        \A k \in DOMAIN geo.boxes :
            FourNumbers(k) =>
                LET v0 == geo.boxes[k].v[1].n
                    v1 == geo.boxes[k].v[2].n
                    v2 == geo.boxes[k].v[3].n
                    v3 == geo.boxes[k].v[4].n
                    e == geo.extents[k]
                IN /\ e = IF v0 > v2 \/ v1 > v3
                          THEN <<Num(Min(v0, v2)), Num(Min(v1, v3)),
                                 Num(Max(v0, v2) - Min(v0, v2)),
                                 Num(Max(v1, v3) - Min(v1, v3))>>
                          ELSE <<Num(v1), Num(v0), Num(v3 - v1), Num(v2 - v0)>>
                   /\ e[3].n >= 0
                   /\ e[4].n >= 0

\* C13 witness: the reply [0.75, 0.25, 0.25, 0.75] (for RawUnit = 4), whose
\* first value is above its third, has been taken by min/max pairing and
\* came out as a region.
C13_Witness ==
    /\ geo.op = "ai"
    /\ geo.done
    /\ geo.boxes = <<[form |-> "array",
                      v |-> <<Num(RawUnit - 1), Num(1), Num(1), Num(RawUnit - 1)>>]>>
    /\ geo.extents[1] = <<Num(1), Num(1), Num(RawUnit - 2), Num(RawUnit - 2)>>
    /\ geo.regions = <<[x |-> 1, y |-> 1, width |-> RawUnit - 2,
                        height |-> RawUnit - 2]>>

\* The boxes of the reply that, scaled and clamped, are more than 64 px
\* wide and more than 64 px high in the original image.
Above64 ==
    {k \in DOMAIN geo.mapped :
        /\ geo.mapped[k] # <<>>
        /\ ~geo.mapped[k][1].width.nan
        /\ ~geo.mapped[k][1].height.nan
        /\ geo.mapped[k][1].width.n * geo.size[1] > 64 * geo.unitX
        /\ geo.mapped[k][1].height.n * geo.size[2] > 64 * geo.unitY}

\* The i-th of them in the order of the reply.
NthAbove64(i) ==
    CHOOSE k \in Above64 : Cardinality({j \in Above64 : j < k}) = i - 1

\* C14: detectSegments returns a box if and only if, scaled and clamped, its
\* width is more than 64 px and its height is more than 64 px of the
\* original image, and returns those boxes in the order of the reply.
C14_SizeFilter ==
    (geo.op = "ai" /\ geo.done) =>
        /\ Len(geo.regions) = Cardinality(Above64)
        /\ \A i \in DOMAIN geo.regions :
              LET b == geo.mapped[NthAbove64(i)][1]
              IN geo.regions[i] = [x |-> b.x.n, y |-> b.y.n,
                                   width |-> b.width.n, height |-> b.height.n]

\* C14 witness: of two boxes of a reply for the 512 px wide image the
\* first was returned and the second, 64 px wide exactly and higher than
\* 64 px, was dropped.
C14_Witness ==
    /\ geo.op = "ai"
    /\ geo.done
    /\ Len(geo.boxes) = 2
    /\ geo.mapped[2] # <<>>
    /\ ~geo.mapped[2][1].width.nan
    /\ ~geo.mapped[2][1].height.nan
    /\ geo.mapped[2][1].width.n * geo.size[1] = 64 * geo.unitX
    /\ geo.mapped[2][1].height.n * geo.size[2] > 64 * geo.unitY
    /\ Above64 = {1}
    /\ Len(geo.regions) = 1

\* No two boxes of the list intersect under the 0.005 buffer.
Disjoint(boxes) ==
    \A m, n \in DOMAIN boxes :
        m # n => ~doBoxesIntersect(boxes[m], boxes[n], MergeSide, MergeSide)

\* C15: merge(merge(L)) is the same regions, ids and rectangles, as
\* merge(L), and merge returns a list of pairwise non-intersecting regions
\* as it was given.
C15_Idempotent ==
    (geo.op = "merge" /\ geo.pc = "return") =>
        /\ geo.run = 2 =>
              {geo.mergedBoxes[k] : k \in DOMAIN geo.mergedBoxes}
                  = {geo.first[k] : k \in DOMAIN geo.first}
        /\ Disjoint(geo.boxes) => geo.mergedBoxes = geo.boxes

\* C15 witness: merge has returned for the second time, on the one region
\* that its first call made of three.
C15_Witness ==
    /\ geo.op = "merge"
    /\ geo.pc = "return"
    /\ geo.run = 2
    /\ Len(geo.first) = 1
    /\ geo.first[1].width > 30
    /\ geo.mergedBoxes = geo.first

\* A turn of the for loops that merges: region i becomes the union
\* bounding box of i and j under i's id, region j is removed, the others
\* stay.
C19_Step ==
    (geo.op = "merge" /\ geo.pc = "for" /\ geo'.mergedBoxes # geo.mergedBoxes) =>
        LET a == geo.mergedBoxes[geo.i]
            b == geo.mergedBoxes[geo.j]
            u == geo'.mergedBoxes[geo.i]
        IN /\ doBoxesIntersect(a, b, MergeSide, MergeSide)
           /\ Len(geo'.mergedBoxes) = Len(geo.mergedBoxes) - 1
           /\ u.id = a.id
           /\ u.x = Min(a.x, b.x)
           /\ u.y = Min(a.y, b.y)
           /\ u.x + u.width = Max(a.x + a.width, b.x + b.width)
           /\ u.y + u.height = Max(a.y + a.height, b.y + b.height)
           /\ \A k \in DOMAIN geo'.mergedBoxes :
                 k # geo.i =>
                    geo'.mergedBoxes[k] =
                        geo.mergedBoxes[IF k < geo.j THEN k ELSE k + 1]

\* C19: merge terminates on every list, what it returns has no two regions
\* that intersect under the 0.005 buffer, and every merge step replaces
\* region i by the union bounding box of i and j, keeps i's id and removes
\* j.
C19_FixedPoint ==
    /\ [](geo.op = "merge" => <>(geo.pc = "return"))
    /\ []((geo.op = "merge" /\ geo.pc = "return") => Disjoint(geo.mergedBoxes))
    /\ [][C19_Step]_vars

\* C19 witness: merge has returned two regions, the first made of two of
\* the three it was given.
C19_Witness ==
    /\ geo.op = "merge"
    /\ geo.pc = "return"
    /\ geo.run = 1
    /\ Len(geo.boxes) = 3
    /\ Len(geo.mergedBoxes) = 2
    /\ geo.mergedBoxes[1].id = 0
    /\ geo.mergedBoxes[1] # geo.boxes[1]
    /\ Disjoint(geo.mergedBoxes)

\* The dilated row (column) energy profile of a box of the buffer `data`.
ProfileOf(axis, box, data) ==
    LET raw == IF axis = "row"
               THEN Stored([i \in 1..(box.maxY - box.minY + 1) |->
                        getRowEnergy(data, box.minY + i - 1, box.minX, box.maxX)])
               ELSE Stored([i \in 1..(box.maxX - box.minX + 1) |->
                        getColEnergy(data, box.minX + i - 1, box.minY, box.maxY)])
    IN IF Known(raw) THEN dilateProfile(raw, dilationRadius(geo.threshold)) ELSE raw

RowProfile(box) == ProfileOf("row", box, Buffer(geo.img))

ColProfile(box) == ProfileOf("col", box, Buffer(geo.img))

\* The profile has a run of flat entries of length gap or more.
FlatRun(profile, gap) ==
    \E from \in 1..(Len(profile) - gap + 1) :
        \A k \in from..(from + gap - 1) : Flat(profile[k])

\* splitBox has returned for a rect of at least 80 px each way whose
\* dilated profiles have no flat run of minGapSize.
NoGutterRect ==
    /\ geo.op = "split"
    /\ geo.stack = <<>>
    /\ geo.box.maxX - geo.box.minX + 1 >= 80
    /\ geo.box.maxY - geo.box.minY + 1 >= 80
    /\ ~FlatRun(RowProfile(geo.box), minGap(geo.threshold))
    /\ ~FlatRun(ColProfile(geo.box), minGap(geo.threshold))

\* C16: for such a rect splitBox returns exactly one region, and its x, y,
\* width and height are the extent of the rect, the pixels minX..maxX by
\* minY..maxY, over the buffer's width and height.
C16_WholeRect ==
    NoGutterRect =>
        geo.regions = <<[x |-> geo.box.minX, y |-> geo.box.minY,
                         width |-> geo.box.maxX - geo.box.minX + 1,
                         height |-> geo.box.maxY - geo.box.minY + 1]>>

\* splitBox has returned for the 200 x 100 rect of two parts of the given
\* textures with solid background in the columns 90..149, threshold 50.
GutterScenario(textures) ==
    /\ geo.op = "split"
    /\ geo.stack = <<>>
    /\ geo.threshold = 50
    /\ \E texture \in textures :
          geo.img = Panels(<<90, 60, 50>>, <<100>>, texture, "paper", FALSE)

\* C17: for the 200 x 100 rect of vertical stripes (each column uniform top
\* to bottom) with solid background in the columns 90..149, threshold 50,
\* splitBox returns exactly 2 regions, the first with its right edge at
\* most 90/200 and the second with its left edge at least 149/200.
C17_AsStated ==
    GutterScenario({"stripes"}) =>
        /\ Len(geo.regions) = 2
        /\ geo.regions[1].x + geo.regions[1].width <= 90
        /\ geo.regions[2].x >= 149

\* C17 as amended: with parts that change from pixel to pixel along every
\* column splitBox returns exactly 2 regions, the first with its right edge
\* at most 110/200 and the second with its left edge at least 130/200;
\* with vertical stripes it returns the rect as one region.
C17_Amended ==
    /\ GutterScenario({"checker", "bars"}) =>
          /\ Len(geo.regions) = 2
          /\ geo.regions[1].x + geo.regions[1].width <= 110
          /\ geo.regions[2].x >= 130
    /\ GutterScenario({"stripes"}) => geo.regions = <<BoxRegion(geo.box)>>

\* C17 witness: splitBox has returned two regions for the checkered rect,
\* the second on the right of the first.
C17_Witness ==
    /\ GutterScenario({"checker"})
    /\ Len(geo.regions) = 2
    /\ geo.regions[1].x = 0
    /\ geo.regions[2].x > geo.regions[1].x + geo.regions[1].width
    /\ geo.regions[2].x + geo.regions[2].width = 199

\* The dilated row profile of the box has a qualifying gutter: a maximal
\* flat run from..to-1 between two entries that are not flat, of
\* minGapSize or more, at least 30 px from the top and with at least 30 px
\* below it.
RowGutter(box) ==
    LET profile == RowProfile(box)
    IN \E from \in (box.minY + 30)..box.maxY :
        /\ ~Flat(profile[from - box.minY])
        /\ \E to \in (from + minGap(geo.threshold))..(box.maxY - 30) :
              /\ ~Flat(profile[to - box.minY + 1])
              /\ \A y \in from..(to - 1) : Flat(profile[y - box.minY + 1])

\* A call of splitBox on a box of 80 px or more each way: when the box has
\* a qualifying row gutter it recurses on a top and a bottom box of the
\* full width, and it recurses on a left and a right box only when there
\* is none.
C20_Step ==
    (geo.op = "split" /\ geo.stack # <<>> /\ geo' # geo) =>
        LET box == Head(geo.stack)
            recurses == Len(geo'.stack) = Len(geo.stack) + 1
            topBottom == /\ recurses
                         /\ geo'.stack[1].maxY < geo'.stack[2].minY
                         /\ \A k \in 1..2 : /\ geo'.stack[k].minX = box.minX
                                            /\ geo'.stack[k].maxX = box.maxX
            leftRight == /\ recurses
                         /\ geo'.stack[1].maxX < geo'.stack[2].minX
        IN (box.maxX - box.minX >= 80 /\ box.maxY - box.minY >= 80) =>
              LET gutter == RowGutter(box)
              IN IF gutter THEN topBottom /\ ~leftRight ELSE TRUE

\* C20: at every recursion level splitBox searches the rows first: a rect
\* with a qualifying row gutter is split into a top and a bottom rect,
\* whatever its columns, and a rect is split left and right only when no
\* row gutter qualified.
C20_RowsFirst == [][C20_Step]_vars

\* C20 witness: of four panels with gutters both ways splitBox has
\* returned the two upper ones, left then right, before the two lower ones.
C20_Witness ==
    /\ geo.op = "split"
    /\ geo.stack = <<>>
    /\ Len(geo.regions) = 4
    /\ geo.regions[1].y = geo.regions[2].y
    /\ geo.regions[1].x < geo.regions[2].x
    /\ geo.regions[3].y > geo.regions[1].y + geo.regions[1].height
    /\ geo.regions[3].x = geo.regions[1].x
    /\ geo.regions[4].y = geo.regions[3].y

\* from..to-1 is a maximal run of flat entries of the profile of lo..hi.
MaximalRun(profile, lo, hi, from, to) ==
    /\ from < to
    /\ from = lo \/ ~Flat(profile[from - lo])
    /\ to = hi + 1 \/ ~Flat(profile[to - lo + 1])
    /\ \A p \in from..(to - 1) : Flat(profile[p - lo + 1])

\* The gutters <<from, to>> the profile of lo..hi has: the first maximal
\* flat run from..to-1 of `gap` entries or more that leaves 30 px or more
\* before it (lo..from-1) and 30 px or more after it (to..hi).
FirstGutter(profile, lo, hi, gap) ==
    LET found == {ft \in ((lo + 30)..hi) \X ((lo + 30)..(hi - 29)) :
                    /\ ft[2] - ft[1] >= gap
                    /\ MaximalRun(profile, lo, hi, ft[1], ft[2])}
    IN {ft \in found : \A other \in found : ft[1] <= other[1]}

\* A call of splitBox on a box of more than 80 px each way: it recurses on
\* the two sides of the first gutter of the rows, else of the columns, and
\* on nothing else.
C21_Step ==
    (geo.op = "split" /\ geo.stack # <<>> /\ geo' # geo) =>
        LET box == Head(geo.stack)
            gap == minGap(geo.threshold)
            rows == FirstGutter(RowProfile(box), box.minY, box.maxY, gap)
            cols == IF rows = {}
                    THEN FirstGutter(ColProfile(box), box.minX, box.maxX, gap)
                    ELSE {}
        IN (box.maxX - box.minX >= 80 /\ box.maxY - box.minY >= 80) =>
              IF rows # {}
              THEN \E ft \in rows :
                      geo'.stack = <<[box EXCEPT !.maxY = ft[1] - 1],
                                     [box EXCEPT !.minY = ft[2]]>>
                                   \o Tail(geo.stack)
              ELSE IF cols # {}
              THEN \E ft \in cols :
                      geo'.stack = <<[box EXCEPT !.maxX = ft[1] - 1],
                                     [box EXCEPT !.minX = ft[2]]>>
                                   \o Tail(geo.stack)
              ELSE geo'.stack = Tail(geo.stack)

\* C21: scanning the dilated profile in increasing order, the gutter that
\* splitBox accepts is the first maximal run of values below 5 whose length
\* is at least minGapSize and whose two sub-rects are both at least 30 px
\* thick; runs that fail either test are skipped, and the sub-rects hold no
\* row (column) of the accepted gutter.
C21_GutterAcceptance == [][C21_Step]_vars

\* The pixels of the run from..to-1 of rows (axis "row") or columns of the
\* box are all fully transparent.
Transparent(axis, box, from, to, data) ==
    IF axis = "row"
    THEN \A y \in from..(to - 1) : \A x \in box.minX..box.maxX : data[y][x].a < 10
    ELSE \A x \in from..(to - 1) : \A y \in box.minY..box.maxY : data[y][x].a < 10

\* The sum, over the differences in D, of the difference times the number
\* of the pairs (i, i+1) of C that have it.
RECURSIVE TotalOf(_, _, _)
TotalOf(line, C, D) ==
    IF D = {} THEN 0
    ELSE LET d == CHOOSE e \in D : TRUE
         IN d * Cardinality({i \in C : 3 * Abs(line[i].v - line[i + 1].v) = d})
            + TotalOf(line, C, D \ {d})

\* The energy of a line of pixels as the claim defines it: the average
\* colour difference of the neighbouring pairs that are not both fully
\* transparent; <<0, 1>> when there is no such pair.
LineEnergy(line) ==
    LET C == {i \in 1..(Len(line) - 1) : ~(line[i].a < 10 /\ line[i + 1].a < 10)}
        D == {3 * Abs(line[i].v - line[i + 1].v) : i \in C}
    IN IF C = {} THEN <<0, 1>> ELSE <<TotalOf(line, C, D), Cardinality(C)>>

\* Every row and column energy of the box, as splitBox computes it, is the
\* energy the claim defines.
ExcludedFromAverage(box, data) ==
    /\ \A y \in box.minY..box.maxY :
          getRowEnergy(data, y, box.minX, box.maxX)
            = LineEnergy([i \in 1..(box.maxX - box.minX + 1) |->
                             data[y][box.minX + i - 1]])
    /\ \A x \in box.minX..box.maxX :
          getColEnergy(data, x, box.minY, box.maxY)
            = LineEnergy([i \in 1..(box.maxY - box.minY + 1) |->
                             data[box.minY + i - 1][x]])

\* The buffer has fully transparent pixels.
HasClear == geo.op = "split" /\ \E r \in DOMAIN geo.img.kind :
                                   \E c \in DOMAIN geo.img.kind[r] :
                                       geo.img.kind[r][c] = "clear"

\* A call of splitBox that recurses leaves out a gutter that is not made of
\* fully transparent pixels only.
C22_Step ==
    (geo.op = "split" /\ geo.stack # <<>>
       /\ Len(geo'.stack) = Len(geo.stack) + 1) =>
        LET box == Head(geo.stack)
            one == geo'.stack[1]
            two == geo'.stack[2]
        IN IF one.maxY < two.minY
           THEN ~Transparent("row", box, one.maxY + 1, two.minY, Buffer(geo.img))
           ELSE ~Transparent("col", box, one.maxX + 1, two.minX, Buffer(geo.img))

\* C22: pixel pairs in which both samples have alpha < 10 are left out of
\* the energy average, and a run of rows (columns) made only of fully
\* transparent pixels is never accepted as a gutter by splitBox.
C22_AsStated ==
    /\ []((HasClear /\ geo.stack # <<>>) =>
             ExcludedFromAverage(Head(geo.stack), Buffer(geo.img)))
    /\ [][C22_Step]_vars

\* splitBox has returned for the 200 px high buffer whose rows 90..149 are
\* fully transparent (transparent but for an opaque sliver 2 px wide, with
\* `bridge`), at a threshold that leaves a run of minGapSize after dilation.
ClearScenario(bridge) ==
    /\ geo.op = "split"
    /\ geo.stack = <<>>
    /\ \E cl \in {<<200>>, <<99, 2, 99>>} :
          geo.img = Panels(cl, <<90, 60, 50>>, "checker", "clear", bridge)
    /\ bridge => geo.img.cols = <<99, 2, 99>>

\* C22 as amended: pairs in which both samples have alpha < 10 are left
\* out of the energy average, and a line with no other pair has energy 0:
\* splitBox accepts the run of fully transparent rows as a gutter and
\* returns the part above it and the part below it, and it returns the
\* rect whole when an opaque sliver crosses the run.
C22_Amended ==
    /\ (HasClear /\ geo.stack # <<>>) =>
          ExcludedFromAverage(Head(geo.stack), Buffer(geo.img))
    /\ ClearScenario(FALSE) =>
          /\ Len(geo.regions) = 2
          /\ geo.regions[1].y = 0
          /\ geo.regions[1].y + geo.regions[1].height < 110
          /\ geo.regions[2].y >= 130
          /\ Transparent("row", geo.box,
                         geo.regions[1].y + geo.regions[1].height + 1,
                         geo.regions[2].y, Buffer(geo.img))
    /\ ClearScenario(TRUE) => geo.regions = <<BoxRegion(geo.box)>>

\* C22 witness: splitBox has returned two regions for the buffer with the
\* fully transparent rows, one above them and one below.
C22_Witness ==
    /\ ClearScenario(FALSE)
    /\ geo.threshold = 100
    /\ Len(geo.regions) = 2
    /\ geo.regions[1].y + geo.regions[1].height = 89
    /\ geo.regions[2].y = 150

\* The pixels of the boxes whose calls are still to come.
Pending(stack) ==
    SumSeq([k \in DOMAIN stack |->
               (stack[k].maxX - stack[k].minX + 1)
                 * (stack[k].maxY - stack[k].minY + 1)])

\* A call of splitBox: a box less than 80 px wide or high is returned as
\* one region; a call that recurses hands on two boxes that are the box
\* along one axis and strictly shorter parts of it along the other; and
\* every call leaves fewer pixels in the boxes still to come.
C23_Step ==
    (geo.op = "split" /\ geo.stack # <<>> /\ geo' # geo) =>
        LET box == Head(geo.stack)
            Part(b, axis) ==
               IF axis = "row"
               THEN /\ b.minX = box.minX /\ b.maxX = box.maxX
                    /\ box.minY <= b.minY /\ b.minY <= b.maxY /\ b.maxY <= box.maxY
                    /\ b.maxY - b.minY < box.maxY - box.minY
               ELSE /\ b.minY = box.minY /\ b.maxY = box.maxY
                    /\ box.minX <= b.minX /\ b.minX <= b.maxX /\ b.maxX <= box.maxX
                    /\ b.maxX - b.minX < box.maxX - box.minX
        IN /\ Pending(geo'.stack) < Pending(geo.stack)
           /\ IF Len(geo'.stack) = Len(geo.stack) + 1
              THEN /\ box.maxX - box.minX + 1 >= 80
                   /\ box.maxY - box.minY + 1 >= 80
                   /\ SubSeq(geo'.stack, 3, Len(geo'.stack)) = Tail(geo.stack)
                   /\ geo'.regions = geo.regions
                   /\ \E axis \in {"row", "col"} :
                         Part(geo'.stack[1], axis) /\ Part(geo'.stack[2], axis)
              ELSE /\ geo'.stack = Tail(geo.stack)
                   /\ geo'.regions = Append(geo.regions, BoxRegion(box))

\* C23: the recursion of splitBox terminates for every rect and buffer:
\* each recursive call receives a sub-rect strictly smaller than its parent
\* along the split axis and unchanged along the other, and a rect less than
\* 80 px wide or high is returned as a single region without recursion.
\* (Every call takes pixels off the boxes still to come, so the calls end.)
C23_Terminates == [][C23_Step]_vars

\* C23 witness: splitBox has returned three regions: the calls on the two
\* sides of a column gutter in the upper part, and the lower part, under
\* 80 px high, whole although the column gutter runs through it.
C23_Witness ==
    /\ geo.op = "split"
    /\ geo.stack = <<>>
    /\ Len(geo.regions) = 3
    /\ geo.regions[1].width < geo.regions[3].width
    /\ geo.regions[2].y = geo.regions[1].y
    /\ geo.regions[3].height + 1 < 80
    /\ geo.regions[3].width = geo.box.maxX - geo.box.minX

\* Two regions share a pixel: a region covers the columns x..x+width-1 and
\* the rows y..y+height-1 it was measured as.
Overlap(a, b) ==
    /\ a.x < b.x + b.width /\ b.x < a.x + a.width
    /\ a.y < b.y + b.height /\ b.y < a.y + a.height

\* The region covers pixels of the rect minX..maxX by minY..maxY only.
Inside(r, box) ==
    /\ box.minX <= r.x /\ r.x + r.width - 1 <= box.maxX
    /\ box.minY <= r.y /\ r.y + r.height - 1 <= box.maxY

\* C30: the regions returned by one splitBox call are pairwise
\* non-overlapping and each lies inside the input rect: no pixel outside
\* the input rect is covered by a returned region.
C30_DisjointInside ==
    geo.op = "split" =>
        /\ \A k \in DOMAIN geo.regions : Inside(geo.regions[k], geo.box)
        /\ \A k \in DOMAIN geo.regions : \A l \in DOMAIN geo.regions :
              k # l => ~Overlap(geo.regions[k], geo.regions[l])

\* C30 witness: splitBox has returned four regions, two side by side above
\* two more, for a rect with gutters both ways.
C30_Witness ==
    /\ geo.op = "split"
    /\ geo.stack = <<>>
    /\ Len(geo.regions) = 4
    /\ geo.regions[1].x + geo.regions[1].width < geo.regions[2].x
    /\ geo.regions[1].y + geo.regions[1].height < geo.regions[3].y
    /\ geo.regions[4].x + geo.regions[4].width = geo.box.maxX
    /\ geo.regions[4].y + geo.regions[4].height = geo.box.maxY

\* The pixels of the buffer that are foreground.
ForegroundPixels == {n \in DOMAIN geo.kind : IsForeground(geo, n)}

\* Two pixels are next to each other along a row or a column.
AxisAdjacent(m, n) ==
    Abs((m % geo.width) - (n % geo.width))
      + Abs((m \div geo.width) - (n \div geo.width)) = 1

\* The foreground pixels that a path of axis-adjacent foreground pixels
\* links to one of S.
RECURSIVE Linked(_)
Linked(S) ==
    LET more == {n \in ForegroundPixels \ S : \E m \in S : AxisAdjacent(m, n)}
    IN IF more = {} THEN S ELSE Linked(S \cup more)

\* C24: for every buffer width and height the flood fill groups the
\* foreground pixels into exactly the maximal 4-connected components: every
\* foreground pixel is marked visited exactly once and belongs to exactly
\* one component, two pixels share a component iff a path of axis-adjacent
\* foreground pixels links them (the last pixel of a buffer row and the
\* first of the next are never taken as adjacent), and the rect tracked
\* for a component is its tight bounding box.
C24_FloodFill ==
    (geo.op = "flood" /\ geo.p = geo.width * geo.height) =>
        /\ \A n \in ForegroundPixels : geo.visited[n] = 1
        /\ \A n \in ForegroundPixels :
              Cardinality({k \in DOMAIN geo.comps : n \in geo.comps[k].cells}) = 1
        /\ \A k \in DOMAIN geo.comps :
              /\ geo.comps[k].cells # {}
              /\ \A n \in geo.comps[k].cells : geo.comps[k].cells = Linked({n})
              /\ geo.comps[k].rect =
                    [minX |-> SetMin({n % geo.width : n \in geo.comps[k].cells}),
                     maxX |-> SetMax({n % geo.width : n \in geo.comps[k].cells}),
                     minY |-> SetMin({n \div geo.width : n \in geo.comps[k].cells}),
                     maxY |-> SetMax({n \div geo.width : n \in geo.comps[k].cells})]

\* The rectangles of a list of boxes, ids and order left out.
Rects(boxes) ==
    {[x |-> boxes[k].x, y |-> boxes[k].y, width |-> boxes[k].width,
      height |-> boxes[k].height] : k \in DOMAIN boxes}

\* The orders the boxes of a list can be handed over in.
Orders(boxes) ==
    {[k \in DOMAIN boxes |-> boxes[f[k]]] :
        f \in {g \in [DOMAIN boxes -> DOMAIN boxes] :
                  \A k \in DOMAIN boxes : \E l \in DOMAIN boxes : g[l] = k}}

\* Region a lies within region b.
Within(a, b) ==
    /\ b.x <= a.x /\ a.x + a.width <= b.x + b.width
    /\ b.y <= a.y /\ a.y + a.height <= b.y + b.height

\* C29: the set of rectangles that mergeOverlappingBoxes returns, ids and
\* list order left out, is the same for every permutation of the input
\* list, and every input region is contained in exactly one region of the
\* output.
C29_OrderFree ==
    (geo.op = "merge" /\ geo.pc = "return" /\ geo.run = 1) =>
        /\ \A perm \in Orders(geo.boxes) :
              Rects(mergeOverlappingBoxes(perm, MergeSide, MergeSide))
                = Rects(geo.mergedBoxes)
        /\ \A k \in DOMAIN geo.boxes :
              Cardinality({l \in DOMAIN geo.mergedBoxes :
                              Within(geo.boxes[k], geo.mergedBoxes[l])}) = 1

\* C29 witness: merge has returned two regions for three, the first of
\* which it joined with the third, not with the second.
C29_Witness ==
    /\ geo.op = "merge"
    /\ geo.pc = "return"
    /\ geo.run = 1
    /\ Len(geo.boxes) = 3
    /\ Len(geo.mergedBoxes) = 2
    /\ Within(geo.boxes[1], geo.mergedBoxes[1])
    /\ Within(geo.boxes[3], geo.mergedBoxes[1])
    /\ ~Within(geo.boxes[2], geo.mergedBoxes[1])
    /\ geo.mergedBoxes[2].id = 1

\* The jobs run r has dispatched so far, round after round.
DispatchedBy(r) ==
    {an \in (DOMAIN runs[r].rounds) \X (1..MaxConcurrency) :
        an[2] \in DOMAIN runs[r].rounds[an[1]]}

Cancelled(r) == \E k \in DOMAIN runs[r].batch : runs[r].batch[k].doomed

\* C26: a run that cancellation was signalled to dispatches no further job,
\* neither a job of the cleared working set nor one imported and queued
\* after the cancel flag was reset.
C26_Step == \A r \in DOMAIN runs : Cancelled(r) => ~Dispatches(r)

C26_NoDispatchAfterCancel == [][C26_Step]_vars

\* In this step job k of run r commits a failure.
CommitsError(r, k) ==
    /\ Settles(r, k)
    /\ runs'[r].batch[k].st = "returned1"
    /\ Exists(files, runs[r].batch[k].file.id)
    /\ Exists(files', runs[r].batch[k].file.id)
    /\ FileOf(files', runs[r].batch[k].file.id).status = "error"

\* C27: the commit of a failed job changes the status of that job and
\* nothing else: its regions and its mode are what the working set held
\* right before the commit, also when they were edited while the detection
\* was in flight, and every other file is untouched.
C27_Step ==
    \A r \in DOMAIN runs : \A k \in 1..MaxConcurrency :
        CommitsError(r, k) =>
            /\ OthersUntouched(runs[r].batch[k].file.id)
            /\ FileOf(files', runs[r].batch[k].file.id).slices
                  = FileOf(files, runs[r].batch[k].file.id).slices
            /\ FileOf(files', runs[r].batch[k].file.id).mode
                  = FileOf(files, runs[r].batch[k].file.id).mode

C27_ErrorCommitFrame == [][C27_Step]_vars

\* C28, the stack: the undo stack never holds more than 50 snapshots.
C28_Limit == geo.op = "history" => Len(geo.undo) <= HistoryLimit

\* C28, a step: a recorded edit leaves the redo stack empty, and a redo
\* that comes right after an undo puts back the regions and both stacks
\* the file had when the undo began.
C28_Step ==
    /\ geo'.edits = geo.edits + 1 => geo'.redo = <<>>
    /\ (geo.last = "undo" /\ geo'.last = "redo") =>
          /\ geo'.slices = geo.before.slices
          /\ geo'.undo = geo.before.undo
          /\ geo'.redo = geo.before.redo

\* C28: the undo stack is bounded by 50, a recorded edit empties the redo
\* stack, and undo followed by redo restores the regions and both stacks.
C28_UndoRedo == []C28_Limit /\ [][C28_Step]_vars

=============================================================================
